---- MODULE Spec2Model ----
(***************************************************************************)
(* Testimony submission wizard, admin session gate, admin page loaders and *)
(* the upload call of the testimonies front end, as state machines.        *)
(*                                                                         *)
(* React state (useState), the react-hook-form values and the requests in  *)
(* flight are the variables; every event handler, effect and promise       *)
(* continuation is one action.  A handler runs to its next await in one    *)
(* step; the continuation after the await is the step of the response.     *)
(***************************************************************************)
EXTENDS Integers, Sequences, FiniteSets, TLC

VARIABLES
    \* ---- submit wizard (src/app/submit/page.tsx) ----
    focus,                \* which field group this behaviour types freely
    route,                \* "/submit" or "/submit/success" (router.push)
    step,                 \* useState(0)
    form,                 \* react-hook-form values
    file,                 \* useState<File | null>: <<>> or <<size in bytes>>
    networks, externalCategories, testimonyCategories, zones, countries,
    groups,
    isInitialLoading, isLoadingGroups, isSubmitting, isCreatingGroup,
    initialLoadError, groupsError,
    initialReqs,          \* Promise.all loads in flight
    groupReqs,            \* getGroups requests in flight, per zone
    pendingRun,           \* handleSubmit suspended at createGroup: its captured values
    postReqs,             \* testimony POSTs in flight (responses not yet seen)
    createdGroups,        \* server: groups created by createGroup, per name and zone
    \* ---- admin session (src/lib/auth.tsx, src/app/admin/layout.tsx) ----
    admin,                \* useState<Admin | null>(null)
    isLoading,            \* useState(true)
    pathname,             \* usePathname()
    pendingNav,           \* target of the last router.push not yet committed
    checkReqs, loginReqs, logoutReqs,     \* auth requests in flight
    \* ---- admin pages ----
    stats, statsIsLoading, statsReqs,             \* DashboardPage
    settingsData, settingsIsLoading, settingsReqs,  \* SettingsPage
    profile, profileIsLoading, profileReqs,       \* ProfilePage
    filterData, filterReqs,                       \* TestimoniesPage filter lists
    \* ---- admin settings form (src/app/admin/settings/page.tsx) ----
    settings,             \* data.settings, meaningful while data is not null
    stored,               \* the storage settings the server holds
    totalStorageGB, maxVideoMB, maxAudioMB,       \* the three input texts
    isSaving,             \* useState(false)
    saveRun,              \* handleSave suspended at updateStorageSettings: its payload
    \* ---- admin testimonies page (src/app/admin/testimonies/page.tsx) ----
    page, statusFilter,   \* useState(1), useState('') of the status filter
    listData,             \* data: null, or the query its rows answer
    totalPages,           \* data.pagination.totalPages; 0 while data is null
    serverPages,          \* server: number of pages of the testimonies list
    listIsLoading,        \* isLoading
    listReqs,             \* getTestimonies requests in flight, per query
    selectedTestimony, isViewOpen, isDeleting, isUpdating,
    viewReqs,             \* getTestimony requests in flight
    updateRun, deleteRun, \* handleUpdateStatus / handleDelete suspended at their await
    \* ---- submitTestimony (src/unnamed/part_005) ----
    calls,                \* one record per call of submitTestimony
    \* ---- fetchApi (src/unnamed/part_005) ----
    apiCalls,             \* one record per call of fetchApi
    \* ---- outputs of the last step, all pages ----
    sent,                 \* the API requests the last step issued
    toast,                \* title of the toast the last step showed
    failure               \* API call whose rejection the last step handled

wizardVars == <<focus, route, step, form, file, networks, externalCategories,
                testimonyCategories, zones, countries, groups, isInitialLoading,
                isLoadingGroups, isSubmitting, isCreatingGroup, initialLoadError,
                groupsError, initialReqs, groupReqs, pendingRun, postReqs,
                createdGroups>>

authVars == <<admin, isLoading, pathname, pendingNav, checkReqs, loginReqs, logoutReqs>>

listVars == <<page, statusFilter, listData, totalPages, serverPages, listIsLoading,
              listReqs, selectedTestimony, isViewOpen, isDeleting, isUpdating, viewReqs,
              updateRun, deleteRun>>

saveVars == <<settings, stored, totalStorageGB, maxVideoMB, maxAudioMB, isSaving, saveRun>>

pageVars == <<stats, statsIsLoading, statsReqs, settingsData, settingsIsLoading,
              settingsReqs, profile, profileIsLoading, profileReqs, filterData, filterReqs,
              listVars, saveVars>>

uploadVars == <<calls, apiCalls>>

outVars == <<sent, toast, failure>>

vars == <<wizardVars, authVars, pageVars, uploadVars, outVars>>

(***************************************************************************)
(* Values.  undefined and '' are both falsy and both absent from the       *)
(* meaning of a field, so one value stands for them.  A free-text field is *)
(* held as its length, the only thing the code (truthiness) and the schema *)
(* (min length) read from it; the e-mail keeps its characters.             *)
(***************************************************************************)
Undefined == ""
NoError == ""
NoToast == ""
NoFailure == ""
NoFile == <<>>

STEPS == <<"Category", "Details", "Personal Info", "Testimony", "Review">>

CategoryTypes == {"NETWORK", "EXTERNAL", "REGION"}
ContentTypes == {"TEXT", "VIDEO", "AUDIO"}

\* formSchema's minimum lengths
MinNameLen == 2
MinPhoneLen == 6

\* handleFileChange's limits, in bytes
MB == 1024 * 1024
MaxVideoSize == 100 * MB
MaxOtherSize == 20 * MB

\* bounds of the typed inputs
MaxNameLen == 2
MaxPhoneLen == 6
MaxTextLen == 1
MaxGroupLoads == 2
MaxCreatedGroups == 2

\* what the API serves
NetworkIds == {"n1"}
ExternalCategoryIds == {"e1"}
TestimonyCategoryIds == {"tc1"}
ZoneIds == {"z1", "z2"}
CountryIds == {"c1"}
Endpoints == {"networks", "external", "testimony-categories", "zones", "countries"}
RequestFailed == "Request failed"
CreatedGroupId == "gNew"

GroupsOf(z) == IF z = "z1" THEN {"g1"} ELSE {"g2"}
PhoneCode(c) == IF c \in CountryIds THEN "+1" ELSE Undefined

(***************************************************************************)
(* z.string().email(): exactly one "@", a non-empty local part, and a      *)
(* domain of non-empty labels separated by ".", at least two of them, the  *)
(* last of two characters or more.                                         *)
(***************************************************************************)
IsEmail(e) ==
    \E at \in 1..Len(e) :
        /\ e[at] = "@"
        /\ at > 1
        /\ \A i \in 1..Len(e) : (e[i] = "@") => (i = at)
        /\ e[1] # "." /\ e[at - 1] # "."
        /\ at < Len(e) /\ e[at + 1] # "."
        /\ \A i \in 1..(Len(e) - 1) : ~(e[i] = "." /\ e[i + 1] = ".")
        /\ \E dot \in (at + 2)..(Len(e) - 2) :
              /\ e[dot] = "."
              /\ \A i \in (dot + 1)..Len(e) : e[i] # "."

ValidEmail == <<"a", "@", "b", ".", "c", "o">>
EmailSamples == {<<>>, <<"a">>, <<"a", "@", "b">>, <<"a", "@", "b", ".", "c">>, ValidEmail}

(***************************************************************************)
(* Inputs.  A behaviour types one field group freely (focus); the inputs   *)
(* of the other groups are drawn from one well-formed value each.          *)
(***************************************************************************)
Focuses == {"network", "external", "region", "newgroup", "switch", "personal", "content"}

TextInputs(g) == IF focus = g THEN 0..MaxTextLen ELSE {1}
NameInputs == IF focus = "personal" THEN 0..MaxNameLen ELSE {MinNameLen}
PhoneInputs == IF focus = "personal" THEN 0..MaxPhoneLen ELSE {MinPhoneLen}
EmailInputs == IF focus = "personal" THEN EmailSamples ELSE {ValidEmail}
CategoryTypeInputs ==
    CASE focus = "switch"   -> CategoryTypes
      [] focus = "external" -> {"EXTERNAL"}
      [] focus = "region"   -> {"REGION"}
      [] focus = "newgroup" -> {"REGION"}
      [] OTHER              -> {"NETWORK"}
NetworkInputs == IF focus = "network" THEN networks \cup {"other"} ELSE networks
ExternalInputs == IF focus = "external" THEN externalCategories \cup {"other"} ELSE externalCategories
ZoneInputs == IF focus = "region" THEN zones ELSE zones \cap {"z1"}
GroupInputs == IF focus = "newgroup" THEN groups \cup {"new"} ELSE groups
ContentTypeInputs == IF focus = "content" THEN ContentTypes ELSE {"TEXT"}
FileInputs ==
    IF focus = "content"
    THEN {MaxOtherSize, MaxOtherSize + 1, MaxVideoSize, MaxVideoSize + 1}
    ELSE {MaxOtherSize}
GroupLoadOutcomes == IF focus = "region" THEN {"ok", "fail"} ELSE {"ok"}

(***************************************************************************)
(* Outputs of a step.                                                      *)
(***************************************************************************)
Out(t, f) == toast' = t /\ failure' = f
Quiet == Out(NoToast, NoFailure)
NoRequests == sent' = {}

(***************************************************************************)
(* useForm defaultValues; every other field starts undefined.              *)
(***************************************************************************)
defaultValues ==
    [ testimonyCategoryId |-> Undefined,
      categoryType        |-> "NETWORK",
      networkId           |-> Undefined,
      customNetwork       |-> 0,
      externalCategoryId  |-> Undefined,
      customExternal      |-> 0,
      zoneId              |-> Undefined,
      groupId             |-> Undefined,
      newGroupName        |-> 0,
      name                |-> 0,
      email               |-> <<>>,
      countryId           |-> Undefined,
      phoneCountryCode    |-> Undefined,
      phone               |-> 0,
      church              |-> 0,
      contentType         |-> "TEXT",
      textContent         |-> 0 ]

NoGroupReqs == [z \in ZoneIds |-> 0]

\* createGroup is called with a non-empty name and a zone
NewGroupKeys == (1..MaxTextLen) \X ZoneIds

\* SubmitPage after its first render and mount effect: the initial load is in flight.
WizardInit ==
    /\ focus \in Focuses
    /\ route = "/submit"
    /\ step = 0
    /\ form = defaultValues
    /\ file = NoFile
    /\ networks = {} /\ externalCategories = {} /\ testimonyCategories = {}
    /\ zones = {} /\ countries = {} /\ groups = {}
    /\ isInitialLoading = TRUE
    /\ isLoadingGroups = FALSE
    /\ isSubmitting = FALSE
    /\ isCreatingGroup = FALSE
    /\ initialLoadError = NoError
    /\ groupsError = NoError
    /\ initialReqs = 1
    /\ groupReqs = NoGroupReqs
    /\ pendingRun = {}
    /\ postReqs = 0
    /\ createdGroups = [k \in NewGroupKeys |-> 0]

OutInit == sent = {} /\ toast = NoToast /\ failure = NoFailure

(***************************************************************************)
(* loadInitialData                                                         *)
(***************************************************************************)
\* The synchronous head of loadInitialData: flags, then the five requests at once.
loadInitialData ==
    /\ isInitialLoading' = TRUE
    /\ initialLoadError' = NoError
    /\ initialReqs' = initialReqs + 1
    /\ sent' = {[api |-> e] : e \in Endpoints}

\* loadInitialData with Promise.allSettled: every list whose request was fulfilled is set
LoadInitialDataDoneSettled(failing) ==
    /\ route = "/submit"
    /\ initialReqs > 0
    /\ initialReqs' = initialReqs - 1
    /\ networks' = IF "networks" \in failing THEN networks ELSE NetworkIds
    /\ externalCategories' = IF "external" \in failing THEN externalCategories
                             ELSE ExternalCategoryIds
    /\ testimonyCategories' = IF "testimony-categories" \in failing THEN testimonyCategories
                              ELSE TestimonyCategoryIds
    /\ zones' = IF "zones" \in failing THEN zones ELSE ZoneIds
    /\ countries' = IF "countries" \in failing THEN countries ELSE CountryIds
    /\ IF failing = {}
       THEN initialLoadError' = initialLoadError /\ Quiet
       ELSE initialLoadError' = RequestFailed /\ Out("Error", "loadInitialData")
    /\ isInitialLoading' = FALSE
    /\ NoRequests
    /\ UNCHANGED <<authVars, pageVars, uploadVars, createdGroups>>
    /\ UNCHANGED <<focus, route, step, form, file, groups, isLoadingGroups, isSubmitting,
                   isCreatingGroup, groupsError, groupReqs, pendingRun, postReqs>>

\* Promise.all settles: all five fulfilled, or the first rejection.
LoadInitialDataDone(failing) ==
    /\ route = "/submit"
    /\ initialReqs > 0
    /\ initialReqs' = initialReqs - 1
    /\ IF failing = {}
       THEN /\ networks' = NetworkIds
            /\ externalCategories' = ExternalCategoryIds
            /\ testimonyCategories' = TestimonyCategoryIds
            /\ zones' = ZoneIds
            /\ countries' = CountryIds
            /\ initialLoadError' = initialLoadError
            /\ Quiet
       ELSE /\ UNCHANGED <<networks, externalCategories, testimonyCategories, zones, countries>>
            /\ initialLoadError' = RequestFailed
            /\ Out("Error", "loadInitialData")
    /\ isInitialLoading' = FALSE
    /\ NoRequests
    /\ UNCHANGED <<authVars, pageVars, uploadVars, createdGroups>>
    /\ UNCHANGED <<focus, route, step, form, file, groups, isLoadingGroups, isSubmitting,
                   isCreatingGroup, groupsError, groupReqs, pendingRun, postReqs>>

\* The error view's "Try Again" button.
TryAgainInitial ==
    /\ route = "/submit"
    /\ ~isInitialLoading
    /\ initialLoadError # NoError
    /\ loadInitialData
    /\ Quiet
    /\ UNCHANGED <<authVars, pageVars, uploadVars, createdGroups>>
    /\ UNCHANGED <<focus, route, step, form, file, networks, externalCategories,
                   testimonyCategories, zones, countries, groups, isLoadingGroups,
                   isSubmitting, isCreatingGroup, groupsError, groupReqs, pendingRun, postReqs>>

\* The form is rendered: not the skeleton, not the error view, not navigated away.
FormShown == route = "/submit" /\ ~isInitialLoading /\ initialLoadError = NoError

(***************************************************************************)
(* Field edits.  Each leaves everything but the form (and, where the code  *)
(* says so, the file or the group load) unchanged.                         *)
(***************************************************************************)
OnlyForm ==
    /\ Quiet /\ NoRequests
    /\ UNCHANGED <<authVars, pageVars, uploadVars, createdGroups>>
    /\ UNCHANGED <<focus, route, step, file, networks, externalCategories,
                   testimonyCategories, zones, countries, groups, isInitialLoading,
                   isLoadingGroups, isSubmitting, isCreatingGroup, initialLoadError,
                   groupsError, initialReqs, groupReqs, pendingRun, postReqs>>

\* step 0
SelectTestimonyCategory(v) ==
    /\ FormShown /\ step = 0
    /\ v \in testimonyCategories
    /\ form' = [form EXCEPT !.testimonyCategoryId = v]
    /\ OnlyForm

SelectCategoryType(v) ==
    /\ FormShown /\ step = 0
    /\ v \in CategoryTypeInputs
    /\ form' = [form EXCEPT !.categoryType = v]
    /\ OnlyForm

\* step 1, NETWORK
SelectNetwork(v) ==
    /\ FormShown /\ step = 1 /\ form.categoryType = "NETWORK"
    /\ v \in NetworkInputs
    /\ form' = [form EXCEPT !.networkId = v]
    /\ OnlyForm

TypeCustomNetwork(s) ==
    /\ FormShown /\ step = 1 /\ form.categoryType = "NETWORK"
    /\ form.networkId = "other"
    /\ s \in TextInputs("network")
    /\ form' = [form EXCEPT !.customNetwork = s]
    /\ OnlyForm

\* step 1, EXTERNAL
SelectExternalCategory(v) ==
    /\ FormShown /\ step = 1 /\ form.categoryType = "EXTERNAL"
    /\ v \in ExternalInputs
    /\ form' = [form EXCEPT !.externalCategoryId = v]
    /\ OnlyForm

TypeCustomExternal(s) ==
    /\ FormShown /\ step = 1 /\ form.categoryType = "EXTERNAL"
    /\ form.externalCategoryId = "other"
    /\ s \in TextInputs("external")
    /\ form' = [form EXCEPT !.customExternal = s]
    /\ OnlyForm

\* loadGroups: flags, the list emptied, one getGroups request.
loadGroups(zoneIdValue) ==
    /\ isLoadingGroups' = TRUE
    /\ groupsError' = NoError
    /\ groups' = {}
    /\ groupReqs' = [groupReqs EXCEPT ![zoneIdValue] = @ + 1]
    /\ sent' = {[api |-> "getGroups", zoneId |-> zoneIdValue]}

GroupLoadsInFlight == groupReqs["z1"] + groupReqs["z2"]

\* step 1, REGION: the zone Select's onValueChange, then the zoneId effect.
SelectZone(v) ==
    /\ FormShown /\ step = 1 /\ form.categoryType = "REGION"
    /\ v \in ZoneInputs
    /\ v # form.zoneId
    /\ GroupLoadsInFlight < MaxGroupLoads
    /\ loadGroups(v)
    /\ form' = [form EXCEPT !.zoneId = v, !.groupId = Undefined, !.newGroupName = 0]
    /\ Quiet
    /\ UNCHANGED <<authVars, pageVars, uploadVars, createdGroups>>
    /\ UNCHANGED <<focus, route, step, file, networks, externalCategories,
                   testimonyCategories, zones, countries, isInitialLoading, isSubmitting,
                   isCreatingGroup, initialLoadError, initialReqs, pendingRun, postReqs>>

\* The "Retry" button under the group Select.
RetryGroups ==
    /\ FormShown /\ step = 1 /\ form.categoryType = "REGION"
    /\ form.zoneId # Undefined
    /\ groupsError # NoError
    /\ GroupLoadsInFlight < MaxGroupLoads
    /\ loadGroups(form.zoneId)
    /\ Quiet
    /\ UNCHANGED <<authVars, pageVars, uploadVars, createdGroups>>
    /\ UNCHANGED <<focus, route, step, form, file, networks, externalCategories,
                   testimonyCategories, zones, countries, isInitialLoading, isSubmitting,
                   isCreatingGroup, initialLoadError, initialReqs, pendingRun, postReqs>>

\* The continuation of loadGroups after await getGroups(zoneIdValue).
GetGroupsDone(z, outcome) ==
    /\ route = "/submit"
    /\ groupReqs[z] > 0
    /\ outcome \in GroupLoadOutcomes
    /\ groupReqs' = [groupReqs EXCEPT ![z] = @ - 1]
    /\ IF outcome = "ok"
       THEN groups' = GroupsOf(z) /\ groupsError' = groupsError /\ Quiet
       ELSE groups' = groups /\ groupsError' = RequestFailed /\ Out("Error", "getGroups")
    /\ isLoadingGroups' = FALSE
    /\ NoRequests
    /\ UNCHANGED <<authVars, pageVars, uploadVars, createdGroups>>
    /\ UNCHANGED <<focus, route, step, form, file, networks, externalCategories,
                   testimonyCategories, zones, countries, isInitialLoading, isSubmitting,
                   isCreatingGroup, initialLoadError, initialReqs, pendingRun, postReqs>>

SelectGroup(v) ==
    /\ FormShown /\ step = 1 /\ form.categoryType = "REGION"
    /\ form.zoneId # Undefined
    /\ ~isLoadingGroups
    /\ v \in GroupInputs
    /\ form' = [form EXCEPT !.groupId = v]
    /\ OnlyForm

TypeNewGroupName(s) ==
    /\ FormShown /\ step = 1 /\ form.categoryType = "REGION"
    /\ form.groupId = "new"
    /\ s \in TextInputs("newgroup")
    /\ form' = [form EXCEPT !.newGroupName = s]
    /\ OnlyForm

TypeChurch(s) ==
    /\ FormShown /\ step = 1 /\ form.categoryType = "REGION"
    /\ (form.groupId # Undefined /\ form.groupId # "new") \/ form.newGroupName > 0
    /\ s \in TextInputs("region")
    /\ form' = [form EXCEPT !.church = s]
    /\ OnlyForm

\* step 2
TypeName(s) ==
    /\ FormShown /\ step = 2
    /\ s \in NameInputs
    /\ form' = [form EXCEPT !.name = s]
    /\ OnlyForm

TypeEmail(e) ==
    /\ FormShown /\ step = 2
    /\ e \in EmailInputs
    /\ form' = [form EXCEPT !.email = e]
    /\ OnlyForm

SelectCountry(v) ==
    /\ FormShown /\ step = 2
    /\ v \in countries
    /\ form' = [form EXCEPT !.countryId = v, !.phoneCountryCode = PhoneCode(v)]
    /\ OnlyForm

TypePhone(s) ==
    /\ FormShown /\ step = 2
    /\ s \in PhoneInputs
    /\ form' = [form EXCEPT !.phone = s]
    /\ OnlyForm

\* The content type buttons without setFile(null) on TEXT
SelectContentTypeKeepingFile(v) ==
    /\ FormShown /\ step = 3
    /\ v \in ContentTypeInputs
    /\ IF v = "TEXT"
       THEN form' = [form EXCEPT !.contentType = v]
       ELSE form' = [form EXCEPT !.contentType = v, !.textContent = 0]
    /\ OnlyForm

\* step 3: the three content type buttons
SelectContentType(v) ==
    /\ FormShown /\ step = 3
    /\ v \in ContentTypeInputs
    /\ IF v = "TEXT"
       THEN form' = [form EXCEPT !.contentType = v] /\ file' = NoFile
       ELSE form' = [form EXCEPT !.contentType = v, !.textContent = 0] /\ file' = file
    /\ Quiet /\ NoRequests
    /\ UNCHANGED <<authVars, pageVars, uploadVars, createdGroups>>
    /\ UNCHANGED <<focus, route, step, networks, externalCategories, testimonyCategories,
                   zones, countries, groups, isInitialLoading, isLoadingGroups, isSubmitting,
                   isCreatingGroup, initialLoadError, groupsError, initialReqs, groupReqs,
                   pendingRun, postReqs>>

TypeTextContent(s) ==
    /\ FormShown /\ step = 3
    /\ form.contentType = "TEXT"
    /\ s \in TextInputs("content")
    /\ form' = [form EXCEPT !.textContent = s]
    /\ OnlyForm

\* handleFileChange with setFile(null) on the rejecting path
handleFileChangeClearing(size) ==
    LET maxSize == IF form.contentType = "VIDEO" THEN MaxVideoSize ELSE MaxOtherSize
    IN  IF size > maxSize
        THEN file' = NoFile /\ Out("File too large", NoFailure)
        ELSE file' = <<size>> /\ Quiet

\* The file input's onChange, rendered for VIDEO and AUDIO.
handleFileChange(size) ==
    LET maxSize == IF form.contentType = "VIDEO" THEN MaxVideoSize ELSE MaxOtherSize
    IN  IF size > maxSize
        THEN file' = file /\ Out("File too large", NoFailure)
        ELSE file' = <<size>> /\ Quiet

ChooseFile(size) ==
    /\ FormShown /\ step = 3
    /\ form.contentType \in {"VIDEO", "AUDIO"}
    /\ size \in FileInputs
    /\ handleFileChange(size)
    /\ NoRequests
    /\ UNCHANGED <<authVars, pageVars, uploadVars, createdGroups>>
    /\ UNCHANGED <<focus, route, step, form, networks, externalCategories,
                   testimonyCategories, zones, countries, groups, isInitialLoading,
                   isLoadingGroups, isSubmitting, isCreatingGroup, initialLoadError,
                   groupsError, initialReqs, groupReqs, pendingRun, postReqs>>

(***************************************************************************)
(* Navigation                                                              *)
(***************************************************************************)
canProceed ==
    LET hasGroup == (form.groupId # Undefined /\ form.groupId # "new") \/ form.newGroupName > 0
        hasChurch == form.church > 0
    IN  CASE step = 0 -> form.categoryType # Undefined /\ form.testimonyCategoryId # Undefined
          [] step = 1 ->
                CASE form.categoryType = "NETWORK" ->
                        form.networkId # Undefined \/ form.customNetwork > 0
                  [] form.categoryType = "EXTERNAL" ->
                        form.externalCategoryId # Undefined \/ form.customExternal > 0
                  [] form.categoryType = "REGION" ->
                        form.zoneId # Undefined /\ hasGroup /\ hasChurch
                  [] OTHER -> FALSE
          [] step = 2 -> form.name > 0 /\ form.email # <<>> /\ form.countryId # Undefined
                         /\ form.phone > 0
          [] step = 3 -> IF form.contentType = "TEXT" THEN form.textContent > 0 ELSE file # NoFile
          [] OTHER -> TRUE

handleNext == step' = IF step < Len(STEPS) - 1 THEN step + 1 ELSE step

\* handleBack as a return to the first step
handleBackToStart == step' = 0

handleBack == step' = IF step > 0 THEN step - 1 ELSE step

OnlyStep ==
    /\ Quiet /\ NoRequests
    /\ UNCHANGED <<authVars, pageVars, uploadVars, createdGroups>>
    /\ UNCHANGED <<focus, route, form, file, networks, externalCategories,
                   testimonyCategories, zones, countries, groups, isInitialLoading,
                   isLoadingGroups, isSubmitting, isCreatingGroup, initialLoadError,
                   groupsError, initialReqs, groupReqs, pendingRun, postReqs>>

\* The Continue button without its disabled attribute
ClickContinueUngated ==
    /\ FormShown
    /\ step < Len(STEPS) - 1
    /\ handleNext
    /\ OnlyStep

\* The Continue button: rendered below the last step, disabled unless canProceed().
ClickContinue ==
    /\ FormShown
    /\ step < Len(STEPS) - 1
    /\ canProceed
    /\ handleNext
    /\ OnlyStep

\* The Back button with the Continue button's disabled={!canProceed()}
ClickBackGated ==
    /\ FormShown
    /\ step # 0
    /\ canProceed
    /\ handleBack
    /\ OnlyStep

\* The Back button: disabled at step 0.
ClickBack ==
    /\ FormShown
    /\ step # 0
    /\ handleBack
    /\ OnlyStep

(***************************************************************************)
(* handleSubmit                                                            *)
(***************************************************************************)
\* The object handed to submitTestimony with the category fields copied as they are
TestimonyInputUnfiltered(data, finalGroupId) ==
    [ testimonyCategoryId |-> data.testimonyCategoryId,
      categoryType        |-> data.categoryType,
      networkId           |-> data.networkId,
      customNetwork       |-> data.customNetwork,
      externalCategoryId  |-> data.externalCategoryId,
      customExternal      |-> data.customExternal,
      zoneId              |-> data.zoneId,
      groupId             |-> IF finalGroupId # "new" THEN finalGroupId ELSE Undefined,
      name                |-> data.name,
      email               |-> data.email,
      phone               |-> data.phone,
      phoneCountryCode    |-> data.phoneCountryCode,
      countryId           |-> data.countryId,
      church              |-> data.church,
      contentType         |-> data.contentType,
      textContent         |-> IF data.contentType = "TEXT" THEN data.textContent ELSE 0 ]

\* The object handed to submitTestimony, from the values captured at the click.
TestimonyInput(data, finalGroupId) ==
    [ testimonyCategoryId |-> data.testimonyCategoryId,
      categoryType        |-> data.categoryType,
      networkId           |-> IF data.categoryType = "NETWORK" /\ data.networkId # "other"
                              THEN data.networkId ELSE Undefined,
      customNetwork       |-> IF data.categoryType = "NETWORK" /\ data.networkId = "other"
                              THEN data.customNetwork ELSE 0,
      externalCategoryId  |-> IF data.categoryType = "EXTERNAL" /\ data.externalCategoryId # "other"
                              THEN data.externalCategoryId ELSE Undefined,
      customExternal      |-> IF data.categoryType = "EXTERNAL" /\ data.externalCategoryId = "other"
                              THEN data.customExternal ELSE 0,
      zoneId              |-> IF data.categoryType = "REGION" THEN data.zoneId ELSE Undefined,
      groupId             |-> IF data.categoryType = "REGION" /\ finalGroupId # "new"
                              THEN finalGroupId ELSE Undefined,
      name                |-> data.name,
      email               |-> data.email,
      phone               |-> data.phone,
      phoneCountryCode    |-> data.phoneCountryCode,
      countryId           |-> data.countryId,
      church              |-> IF data.categoryType = "REGION" THEN data.church ELSE 0,
      contentType         |-> data.contentType,
      textContent         |-> IF data.contentType = "TEXT" THEN data.textContent ELSE 0 ]

\* submitTestimony(input, file || undefined): one POST leaves.
Post(data, finalGroupId, f) ==
    /\ sent' = {[api |-> "submitTestimony", data |-> TestimonyInput(data, finalGroupId), file |-> f]}
    /\ postReqs' = postReqs + 1

\* "Create new group if needed"
NeedsNewGroup(data) ==
    /\ data.categoryType = "REGION"
    /\ data.newGroupName > 0
    /\ data.zoneId # Undefined
    /\ data.groupId = "new"

\* handleSubmit up to its first await: createGroup when needed, else submitTestimony.
handleSubmit ==
    /\ isSubmitting' = TRUE
    /\ IF NeedsNewGroup(form)
       THEN /\ isCreatingGroup' = TRUE
            /\ pendingRun' = pendingRun \cup {[data |-> form, file |-> file]}
            /\ sent' = {[api |-> "createGroup", name |-> form.newGroupName, zoneId |-> form.zoneId]}
            /\ postReqs' = postReqs
       ELSE /\ isCreatingGroup' = isCreatingGroup
            /\ pendingRun' = pendingRun
            /\ Post(form, form.groupId, file)

\* The Submit button without its disabled attribute
ClickSubmitAlwaysEnabled ==
    /\ FormShown
    /\ step = Len(STEPS) - 1
    /\ handleSubmit
    /\ Quiet
    /\ UNCHANGED <<authVars, pageVars, uploadVars, createdGroups>>
    /\ UNCHANGED <<focus, route, step, form, file, networks, externalCategories,
                   testimonyCategories, zones, countries, groups, isInitialLoading,
                   isLoadingGroups, initialLoadError, groupsError, initialReqs, groupReqs>>

\* The Submit button of the Review step, disabled while a run is in progress.
ClickSubmit ==
    /\ FormShown
    /\ step = Len(STEPS) - 1
    /\ ~(isSubmitting \/ isCreatingGroup)
    /\ handleSubmit
    /\ Quiet
    /\ UNCHANGED <<authVars, pageVars, uploadVars, createdGroups>>
    /\ UNCHANGED <<focus, route, step, form, file, networks, externalCategories,
                   testimonyCategories, zones, countries, groups, isInitialLoading,
                   isLoadingGroups, initialLoadError, groupsError, initialReqs, groupReqs>>

\* The server's side of createGroup: a fulfilled call has created one more group.
GroupCreated(run, outcome) ==
    LET key == <<run.data.newGroupName, run.data.zoneId>>
    IN  IF outcome = "ok"
        THEN /\ createdGroups[key] < MaxCreatedGroups
             /\ createdGroups' = [createdGroups EXCEPT ![key] = @ + 1]
        ELSE createdGroups' = createdGroups

\* The continuation after await createGroup(...) without the catch's return
CreateGroupDoneFallingThrough(run, outcome) ==
    /\ route = "/submit"
    /\ run \in pendingRun
    /\ pendingRun' = pendingRun \ {run}
    /\ isCreatingGroup' = FALSE
    /\ isSubmitting' = isSubmitting
    /\ IF outcome = "ok"
       THEN Post(run.data, CreatedGroupId, run.file) /\ Quiet
       ELSE Post(run.data, run.data.groupId, run.file)
            /\ Out("Failed to create group", "createGroup")
    /\ GroupCreated(run, outcome)
    /\ UNCHANGED <<authVars, pageVars, uploadVars>>
    /\ UNCHANGED <<focus, route, step, form, file, networks, externalCategories,
                   testimonyCategories, zones, countries, groups, isInitialLoading,
                   isLoadingGroups, initialLoadError, groupsError, initialReqs, groupReqs>>

\* The continuation after await createGroup(...) without finalGroupId = newGroup.id
CreateGroupDoneIgnoringId(run, outcome) ==
    /\ route = "/submit"
    /\ run \in pendingRun
    /\ pendingRun' = pendingRun \ {run}
    /\ isCreatingGroup' = FALSE
    /\ IF outcome = "ok"
       THEN /\ Post(run.data, run.data.groupId, run.file)
            /\ isSubmitting' = isSubmitting
            /\ Quiet
       ELSE /\ sent' = {}
            /\ postReqs' = postReqs
            /\ isSubmitting' = FALSE
            /\ Out("Failed to create group", "createGroup")
    /\ GroupCreated(run, outcome)
    /\ UNCHANGED <<authVars, pageVars, uploadVars>>
    /\ UNCHANGED <<focus, route, step, form, file, networks, externalCategories,
                   testimonyCategories, zones, countries, groups, isInitialLoading,
                   isLoadingGroups, initialLoadError, groupsError, initialReqs, groupReqs>>

\* The continuation after await createGroup(...): post with the new id, or toast and return.
CreateGroupDone(run, outcome) ==
    /\ route = "/submit"
    /\ run \in pendingRun
    /\ pendingRun' = pendingRun \ {run}
    /\ isCreatingGroup' = FALSE
    /\ IF outcome = "ok"
       THEN /\ Post(run.data, CreatedGroupId, run.file)
            /\ isSubmitting' = isSubmitting
            /\ Quiet
       ELSE /\ sent' = {}
            /\ postReqs' = postReqs
            /\ isSubmitting' = FALSE
            /\ Out("Failed to create group", "createGroup")
    /\ GroupCreated(run, outcome)
    /\ UNCHANGED <<authVars, pageVars, uploadVars>>
    /\ UNCHANGED <<focus, route, step, form, file, networks, externalCategories,
                   testimonyCategories, zones, countries, groups, isInitialLoading,
                   isLoadingGroups, initialLoadError, groupsError, initialReqs, groupReqs>>

\* The continuation after await submitTestimony(...) with router.push in the finally block
SubmitTestimonyDoneAlwaysNavigating(outcome) ==
    /\ route = "/submit"
    /\ postReqs > 0
    /\ postReqs' = postReqs - 1
    /\ route' = "/submit/success"
    /\ IF outcome = "ok" THEN Quiet ELSE Out("Submission failed", "submitTestimony")
    /\ isSubmitting' = FALSE
    /\ NoRequests
    /\ UNCHANGED <<authVars, pageVars, uploadVars, createdGroups>>
    /\ UNCHANGED <<focus, step, form, file, networks, externalCategories,
                   testimonyCategories, zones, countries, groups, isInitialLoading,
                   isLoadingGroups, isCreatingGroup, initialLoadError, groupsError,
                   initialReqs, groupReqs, pendingRun>>

\* The continuation after await submitTestimony(...): navigate, or toast; then finally.
SubmitTestimonyDone(outcome) ==
    /\ route = "/submit"
    /\ postReqs > 0
    /\ postReqs' = postReqs - 1
    /\ IF outcome = "ok"
       THEN route' = "/submit/success" /\ Quiet
       ELSE route' = route /\ Out("Submission failed", "submitTestimony")
    /\ isSubmitting' = FALSE
    /\ NoRequests
    /\ UNCHANGED <<authVars, pageVars, uploadVars, createdGroups>>
    /\ UNCHANGED <<focus, step, form, file, networks, externalCategories,
                   testimonyCategories, zones, countries, groups, isInitialLoading,
                   isLoadingGroups, isCreatingGroup, initialLoadError, groupsError,
                   initialReqs, groupReqs, pendingRun>>

(***************************************************************************)
(* Admin session: AuthProvider and AdminLayoutContent                      *)
(***************************************************************************)
NoAdmin == ""
NoNav == ""
LoginPath == "/admin/login"
\* two of the sidebar's navItems
NavHrefs == {"/admin", "/admin/testimonies"}
AdminPaths == NavHrefs \cup {LoginPath}
MaxAuthReqs == 1

AuthFrame == UNCHANGED <<wizardVars, pageVars, uploadVars>>

\* AuthProvider and the layout after mount: checkAuth() is in flight.
AuthInit ==
    /\ admin = NoAdmin
    /\ isLoading = TRUE
    /\ pathname \in AdminPaths
    /\ pendingNav = NoNav
    /\ checkReqs = 1
    /\ loginReqs = 0
    /\ logoutReqs = 0

\* AdminLayoutContent without its "if (!admin) return null"
AdminLayoutContentNoAdminCheck ==
    IF pathname = LoginPath THEN "children"
    ELSE IF isLoading THEN "skeleton"
    ELSE "content"

\* What AdminLayoutContent returns.
AdminLayoutContent ==
    IF pathname = LoginPath THEN "children"
    ELSE IF isLoading THEN "skeleton"
    ELSE IF admin = NoAdmin THEN "null"
    ELSE "content"

\* The effect's condition without !isLoading
ShouldRedirectWhileLoading(a, loading, path) == a = NoAdmin /\ path # LoginPath

\* The condition of the layout's effect.
ShouldRedirect(a, loading, path) == ~loading /\ a = NoAdmin /\ path # LoginPath

\* The layout's effect runs when admin, isLoading or pathname changed; its
\* router.push comes after any push of the handler itself (base).
LayoutEffect(base) ==
    pendingNav' =
        IF /\ <<admin', isLoading', pathname'>> # <<admin, isLoading, pathname>>
           /\ ShouldRedirect(admin', isLoading', pathname')
        THEN LoginPath
        ELSE base

\* The continuation of checkAuth after await getCurrentAdmin().
CheckAuthDone(outcome) ==
    /\ checkReqs > 0
    /\ checkReqs' = checkReqs - 1
    /\ IF outcome = "ok"
       THEN admin' = "a1" /\ Quiet
       ELSE admin' = NoAdmin /\ Out(NoToast, "getCurrentAdmin")
    /\ isLoading' = FALSE
    /\ pathname' = pathname
    /\ LayoutEffect(pendingNav)
    /\ NoRequests
    /\ UNCHANGED <<loginReqs, logoutReqs>>
    /\ AuthFrame

\* login(email, password), called by the login page.
Login ==
    /\ pathname = LoginPath
    /\ loginReqs < MaxAuthReqs
    /\ loginReqs' = loginReqs + 1
    /\ sent' = {[api |-> "login"]}
    /\ Quiet
    /\ UNCHANGED <<admin, isLoading, pathname, pendingNav, checkReqs, logoutReqs>>
    /\ AuthFrame

\* The continuation of login after await apiLogin(...); a rejection goes to the caller.
LoginDone(outcome) ==
    /\ loginReqs > 0
    /\ loginReqs' = loginReqs - 1
    /\ isLoading' = isLoading
    /\ pathname' = pathname
    /\ IF outcome = "ok"
       THEN admin' = "a1" /\ LayoutEffect("/admin") /\ Quiet
       ELSE admin' = admin /\ pendingNav' = pendingNav /\ Out(NoToast, "login")
    /\ NoRequests
    /\ UNCHANGED <<checkReqs, logoutReqs>>
    /\ AuthFrame

\* The sidebar's Sign Out button: logout().
Logout ==
    /\ AdminLayoutContent = "content"
    /\ logoutReqs < MaxAuthReqs
    /\ logoutReqs' = logoutReqs + 1
    /\ sent' = {[api |-> "logout"]}
    /\ Quiet
    /\ UNCHANGED <<admin, isLoading, pathname, pendingNav, checkReqs, loginReqs>>
    /\ AuthFrame

\* The continuation of logout after await apiLogout(); nothing catches a rejection.
LogoutDone(outcome) ==
    /\ logoutReqs > 0
    /\ logoutReqs' = logoutReqs - 1
    /\ isLoading' = isLoading
    /\ pathname' = pathname
    /\ IF outcome = "ok"
       THEN admin' = NoAdmin /\ LayoutEffect(LoginPath) /\ Quiet
       ELSE admin' = admin /\ pendingNav' = pendingNav /\ Out(NoToast, "logout")
    /\ NoRequests
    /\ UNCHANGED <<checkReqs, loginReqs>>
    /\ AuthFrame

\* A sidebar Link.
ClickNavLink(p) ==
    /\ AdminLayoutContent = "content"
    /\ p \in NavHrefs
    /\ pendingNav' = p
    /\ Quiet /\ NoRequests
    /\ UNCHANGED <<admin, isLoading, pathname, checkReqs, loginReqs, logoutReqs>>
    /\ AuthFrame

\* The router commits the pushed navigation: usePathname() changes.
CommitNavigation ==
    /\ pendingNav # NoNav
    /\ pathname' = pendingNav
    /\ admin' = admin /\ isLoading' = isLoading
    /\ LayoutEffect(NoNav)
    /\ Quiet /\ NoRequests
    /\ UNCHANGED <<checkReqs, loginReqs, logoutReqs>>
    /\ AuthFrame

\* The browser's back and forward buttons.
HistoryNavigate(p) ==
    /\ p \in AdminPaths
    /\ p # pathname
    /\ pathname' = p
    /\ admin' = admin /\ isLoading' = isLoading
    /\ LayoutEffect(pendingNav)
    /\ Quiet /\ NoRequests
    /\ UNCHANGED <<checkReqs, loginReqs, logoutReqs>>
    /\ AuthFrame

NoData == "null"
Loaded == "loaded"

(***************************************************************************)
(* Admin testimonies page: the list, its filters and the detail dialog     *)
(***************************************************************************)
Statuses == {"PENDING", "APPROVED", "REJECTED"}
\* the status filter: nothing chosen yet, or an item of its Select
StatusFilters == {"", "all"}
TestimonyId == "t1"
\* pagination.totalPages of the answers before any testimony is deleted
TotalPages == 2
MaxListLoads == 2
MaxViewLoads == 1
\* data === null
NoListData == [page |-> 0, status |-> ""]
NoSelection == [id |-> "", status |-> ""]
NoRun == [id |-> "", status |-> "", query |-> NoListData]

\* The query loadTestimonies builds from the filters of the render that made it.
Query(p, st) == [page |-> p, status |-> st]
Queries == {Query(p, st) : p \in 1..TotalPages, st \in StatusFilters}
NoListReqs == [q \in Queries |-> 0]

RECURSIVE SumOver(_, _)
SumOver(f, S) == IF S = {} THEN 0 ELSE LET x == CHOOSE y \in S : TRUE
                                       IN  f[x] + SumOver(f, S \ {x})
ListLoadsInFlight == SumOver(listReqs, Queries)

ListFrame ==
    UNCHANGED <<wizardVars, authVars, uploadVars, stats, statsIsLoading, statsReqs,
                settingsData, settingsIsLoading, settingsReqs, profile, profileIsLoading,
                profileReqs, filterData, filterReqs, saveVars>>

\* TestimoniesPage after mount: the first list load is in flight.
ListInit ==
    /\ page = 1 /\ statusFilter = ""
    /\ listData = NoListData /\ totalPages = 0
    /\ serverPages = TotalPages
    /\ listIsLoading = TRUE
    /\ listReqs = [NoListReqs EXCEPT ![Query(1, "")] = 1]
    /\ selectedTestimony = NoSelection
    /\ isViewOpen = FALSE /\ isDeleting = FALSE /\ isUpdating = FALSE
    /\ viewReqs = 0
    /\ updateRun = NoRun /\ deleteRun = NoRun

\* loadTestimonies of the render whose filters are q, up to its await.
loadTestimonies(q) ==
    /\ listIsLoading' = TRUE
    /\ listReqs' = [listReqs EXCEPT ![q] = @ + 1]
    /\ sent' = {[api |-> "getTestimonies", query |-> q]}

\* The continuation of loadTestimonies after await getTestimonies(...).
LoadTestimoniesDone(q, outcome) ==
    /\ listReqs[q] > 0
    /\ listReqs' = [listReqs EXCEPT ![q] = @ - 1]
    /\ IF outcome = "ok"
       THEN listData' = q /\ totalPages' = serverPages /\ Quiet
       ELSE UNCHANGED <<listData, totalPages>> /\ Out("Error", "getTestimonies")
    /\ listIsLoading' = FALSE
    /\ NoRequests
    /\ UNCHANGED <<serverPages, page, statusFilter, selectedTestimony, isViewOpen, isDeleting, isUpdating,
                   viewReqs, updateRun, deleteRun>>
    /\ ListFrame

\* The page behind the dialog takes clicks only while the dialog is closed.
PageClickable == AdminLayoutContent = "content" /\ ~isViewOpen

\* The status Select: setStatus(v); setPage(1); then the effect on loadTestimonies.
SelectStatusFilter(v) ==
    /\ PageClickable
    /\ v \in StatusFilters \ {""}
    /\ v # statusFilter
    /\ ListLoadsInFlight < MaxListLoads
    /\ statusFilter' = v
    /\ page' = 1
    /\ loadTestimonies(Query(1, v))
    /\ Quiet
    /\ UNCHANGED <<listData, selectedTestimony, isViewOpen, isDeleting, isUpdating,
                   viewReqs, updateRun, deleteRun>>
    /\ UNCHANGED <<totalPages, serverPages>>
    /\ ListFrame

\* Previous and Next: setPage(page - 1) / setPage(page + 1), then the effect.
ClickPage(delta) ==
    /\ PageClickable
    /\ listData # NoListData /\ totalPages > 1
    /\ delta \in {-1, 1}
    /\ delta = -1 => page # 1
    /\ delta = 1 => page # totalPages
    /\ page + delta \in 1..TotalPages
    /\ ListLoadsInFlight < MaxListLoads
    /\ page' = page + delta
    /\ loadTestimonies(Query(page + delta, statusFilter))
    /\ Quiet
    /\ UNCHANGED <<statusFilter, listData, selectedTestimony, isViewOpen, isDeleting,
                   isUpdating, viewReqs, updateRun, deleteRun>>
    /\ UNCHANGED <<totalPages, serverPages>>
    /\ ListFrame

\* The eye button of a row: handleViewTestimony up to its await.
ViewTestimony ==
    /\ PageClickable
    /\ ~listIsLoading /\ listData # NoListData
    /\ viewReqs < MaxViewLoads
    /\ viewReqs' = viewReqs + 1
    /\ sent' = {[api |-> "getTestimony", id |-> TestimonyId]}
    /\ Quiet
    /\ UNCHANGED <<page, statusFilter, listData, listIsLoading, listReqs, selectedTestimony,
                   isViewOpen, isDeleting, isUpdating, updateRun, deleteRun>>
    /\ UNCHANGED <<totalPages, serverPages>>
    /\ ListFrame

\* The continuation of handleViewTestimony; the API answers with the status it holds.
GetTestimonyDone(outcome, st) ==
    /\ viewReqs > 0
    /\ viewReqs' = viewReqs - 1
    /\ st \in Statuses
    /\ IF outcome = "ok"
       THEN /\ selectedTestimony' = [id |-> TestimonyId, status |-> st]
            /\ isViewOpen' = TRUE
            /\ Quiet
       ELSE /\ UNCHANGED <<selectedTestimony, isViewOpen>>
            /\ Out("Error", "getTestimony")
    /\ NoRequests
    /\ UNCHANGED <<page, statusFilter, listData, listIsLoading, listReqs, isDeleting,
                   isUpdating, updateRun, deleteRun>>
    /\ UNCHANGED <<totalPages, serverPages>>
    /\ ListFrame

\* The dialog's onOpenChange(false): Escape, the close button, a click outside.
CloseDialog ==
    /\ AdminLayoutContent = "content"
    /\ isViewOpen
    /\ isViewOpen' = FALSE
    /\ Quiet /\ NoRequests
    /\ UNCHANGED <<page, statusFilter, listData, listIsLoading, listReqs, selectedTestimony,
                   isDeleting, isUpdating, viewReqs, updateRun, deleteRun>>
    /\ UNCHANGED <<totalPages, serverPages>>
    /\ ListFrame

\* The dialog footer is on screen.
FooterShown ==
    AdminLayoutContent = "content" /\ isViewOpen /\ selectedTestimony # NoSelection

\* The footer with both buttons rendered whatever the status
ClickUpdateStatusAlwaysOffered(newStatus) ==
    /\ FooterShown
    /\ newStatus \in {"APPROVED", "REJECTED"}
    /\ ~isUpdating
    /\ isUpdating' = TRUE
    /\ updateRun' = [id |-> selectedTestimony.id, status |-> newStatus,
                     query |-> Query(page, statusFilter)]
    /\ sent' = {[api |-> "updateTestimonyStatus", id |-> selectedTestimony.id,
                 status |-> newStatus]}
    /\ Quiet
    /\ UNCHANGED <<page, statusFilter, listData, listIsLoading, listReqs, selectedTestimony,
                   isViewOpen, isDeleting, viewReqs, deleteRun>>
    /\ UNCHANGED <<totalPages, serverPages>>
    /\ ListFrame

\* Reject and Approve: handleUpdateStatus(selectedTestimony.id, newStatus) up to its await.
ClickUpdateStatus(newStatus) ==
    /\ FooterShown
    /\ newStatus \in {"APPROVED", "REJECTED"}
    /\ newStatus = "REJECTED" => selectedTestimony.status # "REJECTED"
    /\ newStatus = "APPROVED" => selectedTestimony.status # "APPROVED"
    /\ ~isUpdating
    /\ isUpdating' = TRUE
    /\ updateRun' = [id |-> selectedTestimony.id, status |-> newStatus,
                     query |-> Query(page, statusFilter)]
    /\ sent' = {[api |-> "updateTestimonyStatus", id |-> selectedTestimony.id,
                 status |-> newStatus]}
    /\ Quiet
    /\ UNCHANGED <<page, statusFilter, listData, listIsLoading, listReqs, selectedTestimony,
                   isViewOpen, isDeleting, viewReqs, deleteRun>>
    /\ UNCHANGED <<totalPages, serverPages>>
    /\ ListFrame

\* The continuation of handleUpdateStatus: toast, close, reload with the
\* loadTestimonies the handler closed over; or the error toast; then finally.
UpdateStatusDone(outcome) ==
    /\ updateRun # NoRun
    /\ updateRun' = NoRun
    /\ IF outcome = "ok"
       THEN /\ ListLoadsInFlight < MaxListLoads
            /\ isViewOpen' = FALSE
            /\ loadTestimonies(updateRun.query)
            /\ Out("Success", NoFailure)
       ELSE /\ UNCHANGED <<isViewOpen, listIsLoading, listReqs>>
            /\ NoRequests
            /\ Out("Error", "updateTestimonyStatus")
    /\ isUpdating' = FALSE
    /\ UNCHANGED <<page, statusFilter, listData, selectedTestimony, isDeleting, viewReqs,
                   deleteRun>>
    /\ UNCHANGED <<totalPages, serverPages>>
    /\ ListFrame

\* Delete: confirm(), then handleDelete up to its await.
ClickDelete(confirmed) ==
    /\ FooterShown
    /\ ~isDeleting
    /\ IF confirmed
       THEN /\ isDeleting' = TRUE
            /\ deleteRun' = [id |-> selectedTestimony.id, status |-> "",
                             query |-> Query(page, statusFilter)]
            /\ sent' = {[api |-> "deleteTestimony", id |-> selectedTestimony.id]}
       ELSE /\ UNCHANGED <<isDeleting, deleteRun>>
            /\ NoRequests
    /\ Quiet
    /\ UNCHANGED <<page, statusFilter, listData, listIsLoading, listReqs, selectedTestimony,
                   isViewOpen, isUpdating, viewReqs, updateRun>>
    /\ UNCHANGED <<totalPages, serverPages>>
    /\ ListFrame

\* The continuation of handleDelete. The server has removed the testimony; when
\* it was the only row of the last page (wasLastRow) the list is one page shorter.
DeleteDone(outcome, wasLastRow) ==
    /\ deleteRun # NoRun
    /\ deleteRun' = NoRun
    /\ IF outcome = "ok"
       THEN /\ ListLoadsInFlight < MaxListLoads
            /\ serverPages' = IF wasLastRow /\ serverPages > 1
                              THEN serverPages - 1 ELSE serverPages
            /\ isViewOpen' = FALSE
            /\ loadTestimonies(deleteRun.query)
            /\ Out("Success", NoFailure)
       ELSE /\ UNCHANGED <<serverPages, isViewOpen, listIsLoading, listReqs>>
            /\ NoRequests
            /\ Out("Error", "deleteTestimony")
    /\ isDeleting' = FALSE
    /\ UNCHANGED <<page, statusFilter, listData, totalPages, selectedTestimony, isUpdating,
                   viewReqs, updateRun>>
    /\ ListFrame

(***************************************************************************)
(* Admin pages: their loads on mount and their "Try Again" buttons          *)
(***************************************************************************)
FilterLists == {"testimonyCategories", "countries", "regions"}

PagesFrame == UNCHANGED <<wizardVars, authVars, uploadVars, listVars, saveVars>>
SettingsFrame == UNCHANGED <<wizardVars, authVars, uploadVars, listVars>>

(***************************************************************************)
(* SettingsPage values.  The text of a number input is "" or a decimal     *)
(* numeral, kept as numerator and denominator; d = 0 stands for "".        *)
(***************************************************************************)
Decimal(n, d) == [n |-> n, d |-> d]
EmptyText == Decimal(0, 0)
GB == 1024 * MB

StorageSettings(t, v, a) ==
    [totalStorageLimit |-> t, maxVideoFileSize |-> v, maxAudioFileSize |-> a]
NoSettings == StorageSettings(0, 0, 0)
NoSave == NoSettings
\* what the server holds before any update
ServerSettings == StorageSettings(GB, 100 * MB, 20 * MB)

\* multipliers[unit] || 1 and divisors[unit] || 1, as powers of two
UnitExponent(unit) == CASE unit = "MB" -> 20 [] unit = "GB" -> 30 [] OTHER -> 0

\* q + r/d doubled k times, kept as quotient and remainder
RECURSIVE TimesPow2(_, _, _, _)
TimesPow2(q, r, d, k) ==
    IF k = 0 THEN <<q, r>>
    ELSE TimesPow2(2 * q + ((2 * r) \div d), (2 * r) % d, d, k - 1)

\* parseSize: Math.round((parseFloat(value) || 0) * (multipliers[unit] || 1))
parseSize(value, unit) ==
    LET num == IF value.d = 0 THEN Decimal(0, 1) ELSE value
        qr  == TimesPow2(num.n \div num.d, num.n % num.d, num.d, UnitExponent(unit))
    IN  qr[1] + (IF 2 * qr[2] >= num.d THEN 1 ELSE 0)

\* bytesToUnit: (bytes / (divisors[unit] || 1)).toFixed(0)
bytesToUnit(bytes, unit) ==
    LET div == 2 ^ UnitExponent(unit)
    IN  Decimal((bytes + (div \div 2)) \div div, 1)

\* what is typed into the three inputs
TotalStorageInputs ==
    {EmptyText, Decimal(-1, 1), Decimal(9, 100), Decimal(1, 10), Decimal(1, 1)}
MaxVideoInputs ==
    {EmptyText, Decimal(9999995, 10000000), Decimal(9999996, 10000000), Decimal(100, 1)}
MaxAudioInputs == {Decimal(0, 1), Decimal(1, 2), Decimal(1, 1), Decimal(20, 1)}

\* SettingsPage after mount, next to its load in flight
SaveInit ==
    /\ settings = NoSettings
    /\ stored = ServerSettings
    /\ totalStorageGB = EmptyText /\ maxVideoMB = EmptyText /\ maxAudioMB = EmptyText
    /\ isSaving = FALSE
    /\ saveRun = NoSave

\* setData(result) and the three inputs filled from result.settings
ShowLoaded ==
    /\ settings' = stored
    /\ totalStorageGB' = bytesToUnit(stored.totalStorageLimit, "GB")
    /\ maxVideoMB' = bytesToUnit(stored.maxVideoFileSize, "MB")
    /\ maxAudioMB' = bytesToUnit(stored.maxAudioFileSize, "MB")
    /\ UNCHANGED <<stored, isSaving, saveRun>>

\* Each page after mount: its load is in flight.
PagesInit ==
    /\ stats = NoData /\ statsIsLoading = TRUE /\ statsReqs = 1
    /\ settingsData = NoData /\ settingsIsLoading = TRUE /\ settingsReqs = 1
    /\ profile = NoData /\ profileIsLoading = TRUE /\ profileReqs = 1
    /\ filterData = {} /\ filterReqs = 1
    /\ ListInit
    /\ SaveInit

\* DashboardPage: getStats().then(setStats).catch(console.error).finally(...)
GetStatsDone(outcome) ==
    /\ statsReqs > 0
    /\ statsReqs' = statsReqs - 1
    /\ IF outcome = "ok"
       THEN stats' = Loaded /\ Quiet
       ELSE stats' = stats /\ Out(NoToast, "getStats")
    /\ statsIsLoading' = FALSE
    /\ NoRequests
    /\ UNCHANGED <<settingsData, settingsIsLoading, settingsReqs, profile, profileIsLoading,
                   profileReqs, filterData, filterReqs>>
    /\ PagesFrame

\* SettingsPage: the head of loadSettings.
loadSettings ==
    /\ settingsIsLoading' = TRUE
    /\ settingsReqs' = settingsReqs + 1
    /\ sent' = {[api |-> "getStorageSettings"]}

\* loadSettings calling itself again from its catch
LoadSettingsDoneRetrying(outcome) ==
    /\ settingsReqs > 0
    /\ IF outcome = "ok"
       THEN /\ settingsData' = Loaded /\ settingsReqs' = settingsReqs - 1
            /\ ShowLoaded
            /\ settingsIsLoading' = FALSE /\ NoRequests /\ Quiet
       ELSE /\ settingsData' = settingsData /\ settingsReqs' = settingsReqs
            /\ UNCHANGED saveVars
            /\ settingsIsLoading' = TRUE /\ sent' = {[api |-> "getStorageSettings"]}
            /\ Out("Error", "getStorageSettings")
    /\ UNCHANGED <<stats, statsIsLoading, statsReqs, profile, profileIsLoading, profileReqs,
                   filterData, filterReqs>>
    /\ SettingsFrame

\* The continuation of loadSettings after await getStorageSettings().
LoadSettingsDone(outcome) ==
    /\ settingsReqs > 0
    /\ settingsReqs' = settingsReqs - 1
    /\ IF outcome = "ok"
       THEN settingsData' = Loaded /\ ShowLoaded /\ Quiet
       ELSE settingsData' = settingsData /\ UNCHANGED saveVars
            /\ Out("Error", "getStorageSettings")
    /\ settingsIsLoading' = FALSE
    /\ NoRequests
    /\ UNCHANGED <<stats, statsIsLoading, statsReqs, profile, profileIsLoading, profileReqs,
                   filterData, filterReqs>>
    /\ SettingsFrame

\* The "Failed to load settings" view's Try Again button.
TryAgainSettings ==
    /\ AdminLayoutContent = "content"
    /\ ~settingsIsLoading
    /\ settingsData = NoData
    /\ loadSettings
    /\ settingsData' = settingsData
    /\ Quiet
    /\ UNCHANGED <<stats, statsIsLoading, statsReqs, profile, profileIsLoading, profileReqs,
                   filterData, filterReqs>>
    /\ PagesFrame

\* The settings form is rendered: not the skeleton, not the "Failed to load" view.
SettingsShown ==
    /\ AdminLayoutContent = "content"
    /\ ~settingsIsLoading
    /\ settingsData # NoData

OtherPagesUnchanged ==
    UNCHANGED <<stats, statsIsLoading, statsReqs, profile, profileIsLoading, profileReqs,
                filterData, filterReqs>>

\* The Refresh button above the form.
RefreshSettings ==
    /\ SettingsShown
    /\ loadSettings
    /\ settingsData' = settingsData
    /\ Quiet
    /\ OtherPagesUnchanged
    /\ PagesFrame

\* onChange of the three inputs
TypeTotalStorage(v) ==
    /\ SettingsShown
    /\ v \in TotalStorageInputs
    /\ totalStorageGB' = v
    /\ UNCHANGED <<settings, stored, maxVideoMB, maxAudioMB, isSaving, saveRun>>
    /\ UNCHANGED <<settingsData, settingsIsLoading, settingsReqs>>
    /\ Quiet /\ NoRequests /\ OtherPagesUnchanged /\ SettingsFrame

TypeMaxVideo(v) ==
    /\ SettingsShown
    /\ v \in MaxVideoInputs
    /\ maxVideoMB' = v
    /\ UNCHANGED <<settings, stored, totalStorageGB, maxAudioMB, isSaving, saveRun>>
    /\ UNCHANGED <<settingsData, settingsIsLoading, settingsReqs>>
    /\ Quiet /\ NoRequests /\ OtherPagesUnchanged /\ SettingsFrame

TypeMaxAudio(v) ==
    /\ SettingsShown
    /\ v \in MaxAudioInputs
    /\ maxAudioMB' = v
    /\ UNCHANGED <<settings, stored, totalStorageGB, maxVideoMB, isSaving, saveRun>>
    /\ UNCHANGED <<settingsData, settingsIsLoading, settingsReqs>>
    /\ Quiet /\ NoRequests /\ OtherPagesUnchanged /\ SettingsFrame

\* handleSave returning from a failed check: one toast (its title and description,
\* joined), nothing else
ValidationError(description) ==
    /\ Out(description, NoFailure)
    /\ sent' = {}
    /\ UNCHANGED <<isSaving, saveRun>>

\* handleSave going on to the update: setIsSaving(true), one PATCH
SendUpdate(payload) ==
    /\ isSaving' = TRUE
    /\ saveRun' = payload
    /\ sent' = {[api |-> "updateStorageSettings", data |-> payload]}
    /\ Quiet

\* handleSave without its third check
handleSaveAudioUnchecked ==
    LET totalStorageLimit == parseSize(totalStorageGB, "GB")
        maxVideoFileSize  == parseSize(maxVideoMB, "MB")
        maxAudioFileSize  == parseSize(maxAudioMB, "MB")
    IN  CASE totalStorageLimit < 100 * MB ->
                 ValidationError("Validation Error: Total storage limit must be at least 100 MB")
          [] maxVideoFileSize < MB /\ ~(totalStorageLimit < 100 * MB) ->
                 ValidationError("Validation Error: Max video file size must be at least 1 MB")
          [] OTHER ->
                 SendUpdate(StorageSettings(totalStorageLimit, maxVideoFileSize,
                                            maxAudioFileSize))

\* handleSave up to await updateStorageSettings(...)
handleSave ==
    LET totalStorageLimit == parseSize(totalStorageGB, "GB")
        maxVideoFileSize  == parseSize(maxVideoMB, "MB")
        maxAudioFileSize  == parseSize(maxAudioMB, "MB")
    IN  IF totalStorageLimit < 100 * MB
        THEN ValidationError("Validation Error: Total storage limit must be at least 100 MB")
        ELSE IF maxVideoFileSize < MB
        THEN ValidationError("Validation Error: Max video file size must be at least 1 MB")
        ELSE IF maxAudioFileSize < MB
        THEN ValidationError("Validation Error: Max audio file size must be at least 1 MB")
        ELSE SendUpdate(StorageSettings(totalStorageLimit, maxVideoFileSize,
                                        maxAudioFileSize))

\* The Save Changes button, disabled while isSaving.
ClickSave ==
    /\ SettingsShown
    /\ ~isSaving
    /\ handleSave
    /\ UNCHANGED <<settings, stored, totalStorageGB, maxVideoMB, maxAudioMB>>
    /\ UNCHANGED <<settingsData, settingsIsLoading, settingsReqs>>
    /\ OtherPagesUnchanged /\ SettingsFrame

\* The continuation of handleSave after await updateStorageSettings(...).
UpdateSettingsDone(outcome) ==
    /\ saveRun # NoSave
    /\ saveRun' = NoSave
    /\ IF outcome = "ok"
       THEN /\ stored' = saveRun
            /\ settings' = saveRun
            /\ settingsData' = Loaded
            /\ Out("Success", NoFailure)
       ELSE /\ UNCHANGED <<stored, settings, settingsData>>
            /\ Out("Error", "updateStorageSettings")
    /\ isSaving' = FALSE
    /\ NoRequests
    /\ UNCHANGED <<totalStorageGB, maxVideoMB, maxAudioMB, settingsIsLoading, settingsReqs>>
    /\ OtherPagesUnchanged /\ SettingsFrame

\* ProfilePage: the head of loadProfile.
loadProfile ==
    /\ profileIsLoading' = TRUE
    /\ profileReqs' = profileReqs + 1
    /\ sent' = {[api |-> "getAdminProfile"]}

\* The continuation of loadProfile after await getAdminProfile().
LoadProfileDone(outcome) ==
    /\ profileReqs > 0
    /\ profileReqs' = profileReqs - 1
    /\ IF outcome = "ok"
       THEN profile' = Loaded /\ Quiet
       ELSE profile' = profile /\ Out("Error", "getAdminProfile")
    /\ profileIsLoading' = FALSE
    /\ NoRequests
    /\ UNCHANGED <<stats, statsIsLoading, statsReqs, settingsData, settingsIsLoading,
                   settingsReqs, filterData, filterReqs>>
    /\ PagesFrame

\* The "Failed to load profile" view's Try Again button.
TryAgainProfile ==
    /\ AdminLayoutContent = "content"
    /\ ~profileIsLoading
    /\ profile = NoData
    /\ loadProfile
    /\ profile' = profile
    /\ Quiet
    /\ UNCHANGED <<stats, statsIsLoading, statsReqs, settingsData, settingsIsLoading,
                   settingsReqs, filterData, filterReqs>>
    /\ PagesFrame

\* TestimoniesPage: Promise.all of the three filter lists, each with its own
\* .then(setX); a rejection goes to console.error.
FilterDataDone(failing) ==
    /\ filterReqs > 0
    /\ filterReqs' = filterReqs - 1
    /\ failing \subseteq FilterLists
    /\ filterData' = FilterLists \ failing
    /\ IF failing = {} THEN Quiet ELSE Out(NoToast, "filterData")
    /\ NoRequests
    /\ UNCHANGED <<stats, statsIsLoading, statsReqs, settingsData, settingsIsLoading,
                   settingsReqs, profile, profileIsLoading, profileReqs>>
    /\ PagesFrame

(***************************************************************************)
(* fetchApi: the response, its status and what parsing its body gives      *)
(***************************************************************************)
MaxApiCalls == 2
ApiCallIds == 1..MaxApiCalls
HttpStatuses == {200, 201, 404, 500}
ResponseOk(st) == st >= 200 /\ st <= 299

\* Bodies: not JSON; the JSON null; a JSON string; JSON objects without an
\* error member, with an empty one, with a message, with a number.
NoField == [type |-> "undefined", text |-> ""]
Bodies ==
    {[json |-> FALSE, kind |-> "html",   error |-> NoField],
     [json |-> TRUE,  kind |-> "null",   error |-> NoField],
     [json |-> TRUE,  kind |-> "string", error |-> NoField],
     [json |-> TRUE,  kind |-> "object", error |-> NoField],
     [json |-> TRUE,  kind |-> "object", error |-> [type |-> "string", text |-> ""]],
     [json |-> TRUE,  kind |-> "object", error |-> [type |-> "string", text |-> "Not found"]],
     [json |-> TRUE,  kind |-> "object", error |-> [type |-> "number", text |-> "42"]]}
NoBody == [json |-> FALSE, kind |-> "none", error |-> NoField]
NoResult == [outcome |-> "pending", name |-> "", message |-> "", value |-> NoBody]

ApiNotCalled == [phase |-> "idle", status |-> 0, body |-> NoBody, result |-> NoResult]

ApiInit == apiCalls = [i \in ApiCallIds |-> ApiNotCalled]

ApiFrame == UNCHANGED <<wizardVars, authVars, pageVars, calls>> /\ Quiet /\ NoRequests

Resolved(v) == [outcome |-> "resolved", name |-> "", message |-> "", value |-> v]
Rejected(n, m) == [outcome |-> "rejected", name |-> n, message |-> m, value |-> NoBody]

\* JavaScript truthiness of a member of the parsed body
Truthy(field) == field.type # "undefined" /\ field.text # ""

\* What fetchApi settles with once response.json() has settled.
FetchApiResult(st, body) ==
    IF ResponseOk(st)
    THEN IF body.json THEN Resolved(body)
         ELSE Rejected("SyntaxError", "Unexpected token")
    ELSE IF ~body.json THEN Rejected("Error", RequestFailed)
         ELSE IF body.kind = "null"
              THEN Rejected("TypeError", "Cannot read properties of null")
              ELSE Rejected("Error", IF Truthy(body.error) THEN body.error.text
                                      ELSE RequestFailed)

\* fetchApi up to await fetch(...)
StartFetchApi(i) ==
    /\ apiCalls[i].phase = "idle"
    /\ apiCalls' = [apiCalls EXCEPT ![i].phase = "fetching"]
    /\ ApiFrame

\* The response arrives: fetchApi goes on to await response.json().
ResponseArrives(i, st, body) ==
    /\ apiCalls[i].phase = "fetching"
    /\ st \in HttpStatuses /\ body \in Bodies
    /\ apiCalls' = [apiCalls EXCEPT ![i].phase = "parsing", ![i].status = st, ![i].body = body]
    /\ ApiFrame

\* fetch rejects: no response; fetchApi rejects with fetch's error.
FetchApiNetworkError(i) ==
    /\ apiCalls[i].phase = "fetching"
    /\ apiCalls' = [apiCalls EXCEPT ![i].phase = "settled",
                                    ![i].result = Rejected("TypeError", "Failed to fetch")]
    /\ ApiFrame

\* response.json() settles, and with it fetchApi.
BodyParsed(i) ==
    /\ apiCalls[i].phase = "parsing"
    /\ apiCalls' = [apiCalls EXCEPT ![i].phase = "settled",
                        ![i].result = FetchApiResult(apiCalls[i].status, apiCalls[i].body)]
    /\ ApiFrame

(***************************************************************************)
(* submitTestimony: the fetch, its AbortController and the upload timer    *)
(***************************************************************************)
MaxUploads == 2
Uploads == 1..MaxUploads

TimedOut == "Upload timed out. Please try a smaller file or check your connection."
AbortError == "AbortError"
SubmissionFailed == "Submission failed"

\* What reading the body of a response gives.
OkBodies == {"json", "unparsable"}
ErrorBodies == {"details", "error", "empty", "unparsable"}

NotCalled == [phase |-> "idle", timer |-> "none", responded |-> FALSE, result |-> ""]

UploadInit == calls = [i \in Uploads |-> NotCalled] /\ ApiInit

UploadFrame == UNCHANGED <<wizardVars, authVars, pageVars, apiCalls>> /\ Quiet /\ NoRequests

\* submitTestimony up to await fetch(...): the timer is armed, the request leaves.
StartUpload(i) ==
    /\ calls[i].phase = "idle"
    /\ calls' = [calls EXCEPT ![i].phase = "fetching", ![i].timer = "armed"]
    /\ UploadFrame

\* The continuation after await fetch(...) without clearTimeout
FetchResolvedTimerKept(ok) ==
    [phase |-> IF ok THEN "body" ELSE "errorBody", timer |-> "armed",
     responded |-> TRUE, result |-> ""]

\* The continuation after await fetch(...): clearTimeout, then the body is read.
FetchResolved(ok) ==
    [phase |-> IF ok THEN "body" ELSE "errorBody", timer |-> "cleared",
     responded |-> TRUE, result |-> ""]

FetchResolves(i, ok) ==
    /\ calls[i].phase = "fetching"
    /\ calls' = [calls EXCEPT ![i] = FetchResolved(ok)]
    /\ UploadFrame

\* fetch rejects on a network failure: the catch rethrows, clearTimeout is skipped.
FetchRejects(i) ==
    /\ calls[i].phase = "fetching"
    /\ calls' = [calls EXCEPT ![i].phase = "settled", ![i].result = "Failed to fetch"]
    /\ UploadFrame

\* The message thrown for a response that is not ok.
ErrorMessage(body) ==
    CASE body = "details"    -> "path: message"
      [] body = "error"      -> "errorData.error"
      [] body = "empty"      -> "Submission failed (status)"
      [] body = "unparsable" -> SubmissionFailed

\* response.json() settles: the call resolves, or rejects with the message.
BodyRead(i, body) ==
    /\ \/ /\ calls[i].phase = "body"
          /\ body \in OkBodies
          /\ calls' = [calls EXCEPT ![i].phase = "settled",
                          ![i].result = IF body = "json" THEN "ok" ELSE "SyntaxError"]
       \/ /\ calls[i].phase = "errorBody"
          /\ body \in ErrorBodies
          /\ calls' = [calls EXCEPT ![i].phase = "settled",
                          ![i].result = ErrorMessage(body)]
    /\ UploadFrame

\* What controller.abort() does to the call, by where the call is.
Aborted(c) ==
    CASE c.phase = "fetching"  -> [c EXCEPT !.phase = "settled", !.result = TimedOut]
      [] c.phase = "body"      -> [c EXCEPT !.phase = "settled", !.result = AbortError]
      [] c.phase = "errorBody" -> [c EXCEPT !.phase = "settled", !.result = SubmissionFailed]
      [] OTHER                 -> c

\* The 5 minute timer fires: controller.abort().
TimerFires(i) ==
    /\ calls[i].timer = "armed"
    /\ calls' = [calls EXCEPT ![i] = [Aborted(calls[i]) EXCEPT !.timer = "fired"]]
    /\ UploadFrame

(***************************************************************************)
(* The wizard                                                              *)
(***************************************************************************)
\* The groups a specification leaves alone stay as they are after construction.
WizardIdle == WizardInit /\ focus = "network"
AuthIdle == AuthInit /\ pathname = "/admin"
\* An admin page is on screen: the session check has succeeded.
AuthSignedIn ==
    /\ admin = "a1"
    /\ isLoading = FALSE
    /\ pathname = "/admin"
    /\ pendingNav = NoNav
    /\ checkReqs = 0
    /\ loginReqs = 0
    /\ logoutReqs = 0

Init == WizardInit /\ AuthIdle /\ PagesInit /\ UploadInit /\ OutInit

Next ==
    \/ \E failing \in {{}, {"networks"}, {"zones", "countries"}, Endpoints} :
           LoadInitialDataDone(failing)
    \/ TryAgainInitial
    \/ \E v \in TestimonyCategoryIds : SelectTestimonyCategory(v)
    \/ \E v \in CategoryTypes : SelectCategoryType(v)
    \/ \E v \in NetworkIds \cup {"other"} : SelectNetwork(v)
    \/ \E s \in 0..MaxTextLen : TypeCustomNetwork(s)
    \/ \E v \in ExternalCategoryIds \cup {"other"} : SelectExternalCategory(v)
    \/ \E s \in 0..MaxTextLen : TypeCustomExternal(s)
    \/ \E v \in ZoneIds : SelectZone(v)
    \/ RetryGroups
    \/ \E z \in ZoneIds, outcome \in {"ok", "fail"} : GetGroupsDone(z, outcome)
    \/ \E v \in GroupsOf("z1") \cup GroupsOf("z2") \cup {"new"} : SelectGroup(v)
    \/ \E s \in 0..MaxTextLen : TypeNewGroupName(s)
    \/ \E s \in 0..MaxTextLen : TypeChurch(s)
    \/ \E s \in 0..MaxNameLen : TypeName(s)
    \/ \E e \in EmailSamples : TypeEmail(e)
    \/ \E v \in CountryIds : SelectCountry(v)
    \/ \E s \in 0..MaxPhoneLen : TypePhone(s)
    \/ \E v \in ContentTypes : SelectContentType(v)
    \/ \E s \in 0..MaxTextLen : TypeTextContent(s)
    \/ \E size \in {MaxOtherSize, MaxOtherSize + 1, MaxVideoSize, MaxVideoSize + 1} :
           ChooseFile(size)
    \/ ClickContinue
    \/ ClickBack
    \/ ClickSubmit
    \/ \E run \in pendingRun, outcome \in {"ok", "fail"} : CreateGroupDone(run, outcome)
    \/ \E outcome \in {"ok", "fail"} : SubmitTestimonyDone(outcome)

Spec == Init /\ [][Next]_vars

(***************************************************************************)
(* The admin session                                                       *)
(***************************************************************************)
InitAuth == WizardIdle /\ AuthInit /\ PagesInit /\ UploadInit /\ OutInit

NextAuth ==
    \/ \E outcome \in {"ok", "fail"} : CheckAuthDone(outcome)
    \/ Login
    \/ \E outcome \in {"ok", "fail"} : LoginDone(outcome)
    \/ Logout
    \/ \E outcome \in {"ok", "fail"} : LogoutDone(outcome)
    \/ \E p \in NavHrefs : ClickNavLink(p)
    \/ CommitNavigation
    \/ \E p \in AdminPaths : HistoryNavigate(p)

SpecAuth == InitAuth /\ [][NextAuth]_vars

(***************************************************************************)
(* The loads of the pages and what becomes of their failures               *)
(***************************************************************************)
InitPages == WizardIdle /\ AuthSignedIn /\ PagesInit /\ UploadInit /\ OutInit

NextPages ==
    \/ \E failing \in {{}, {"networks"}, {"zones", "countries"}, Endpoints} :
           LoadInitialDataDone(failing)
    \/ TryAgainInitial
    \/ \E outcome \in {"ok", "fail"} : GetStatsDone(outcome)
    \/ \E outcome \in {"ok", "fail"} : LoadSettingsDone(outcome)
    \/ TryAgainSettings
    \/ \E outcome \in {"ok", "fail"} : LoadProfileDone(outcome)
    \/ TryAgainProfile
    \/ \E failing \in {{}, {"countries"}, FilterLists} : FilterDataDone(failing)
    \/ Logout
    \/ \E outcome \in {"ok", "fail"} : LogoutDone(outcome)

SpecPages == InitPages /\ [][NextPages]_vars

(***************************************************************************)
(* The upload call                                                         *)
(***************************************************************************)
InitUpload == WizardIdle /\ AuthIdle /\ PagesInit /\ UploadInit /\ OutInit

NextUpload ==
    \/ \E i \in Uploads : StartUpload(i)
    \/ \E i \in Uploads, ok \in BOOLEAN : FetchResolves(i, ok)
    \/ \E i \in Uploads : FetchRejects(i)
    \/ \E i \in Uploads, body \in OkBodies \cup ErrorBodies : BodyRead(i, body)
    \/ \E i \in Uploads : TimerFires(i)

SpecUpload == InitUpload /\ [][NextUpload]_vars

(***************************************************************************)
(* fetchApi                                                                *)
(***************************************************************************)
InitApi == WizardIdle /\ AuthIdle /\ PagesInit /\ UploadInit /\ OutInit

NextApi ==
    \/ \E i \in ApiCallIds : StartFetchApi(i)
    \/ \E i \in ApiCallIds, st \in HttpStatuses, body \in Bodies : ResponseArrives(i, st, body)
    \/ \E i \in ApiCallIds : FetchApiNetworkError(i)
    \/ \E i \in ApiCallIds : BodyParsed(i)

SpecApi == InitApi /\ [][NextApi]_vars

(***************************************************************************)
(* The admin testimonies page                                              *)
(***************************************************************************)
(***************************************************************************)
(* The admin settings page                                                 *)
(***************************************************************************)
InitSettings == WizardIdle /\ AuthSignedIn /\ PagesInit /\ UploadInit /\ OutInit

NextSettings ==
    \/ \E outcome \in {"ok", "fail"} : LoadSettingsDone(outcome)
    \/ TryAgainSettings
    \/ RefreshSettings
    \/ \E v \in TotalStorageInputs : TypeTotalStorage(v)
    \/ \E v \in MaxVideoInputs : TypeMaxVideo(v)
    \/ \E v \in MaxAudioInputs : TypeMaxAudio(v)
    \/ ClickSave
    \/ \E outcome \in {"ok", "fail"} : UpdateSettingsDone(outcome)

SpecSettings == InitSettings /\ [][NextSettings]_vars

InitList == WizardIdle /\ AuthSignedIn /\ PagesInit /\ UploadInit /\ OutInit

NextList ==
    \/ \E q \in Queries, outcome \in {"ok", "fail"} : LoadTestimoniesDone(q, outcome)
    \/ \E v \in StatusFilters : SelectStatusFilter(v)
    \/ \E delta \in {-1, 1} : ClickPage(delta)
    \/ ViewTestimony
    \/ \E outcome \in {"ok", "fail"}, st \in Statuses : GetTestimonyDone(outcome, st)
    \/ CloseDialog
    \/ \E newStatus \in {"APPROVED", "REJECTED"} : ClickUpdateStatus(newStatus)
    \/ \E outcome \in {"ok", "fail"} : UpdateStatusDone(outcome)
    \/ \E confirmed \in BOOLEAN : ClickDelete(confirmed)
    \/ \E outcome \in {"ok", "fail"} : DeleteDone(outcome, FALSE)

SpecList == InitList /\ [][NextList]_vars

\* The list page while testimonies are deleted, the last row of a page included.
NextPaging ==
    \/ \E q \in Queries, outcome \in {"ok", "fail"} : LoadTestimoniesDone(q, outcome)
    \/ \E v \in StatusFilters : SelectStatusFilter(v)
    \/ \E delta \in {-1, 1} : ClickPage(delta)
    \/ ViewTestimony
    \/ \E outcome \in {"ok", "fail"}, st \in Statuses : GetTestimonyDone(outcome, st)
    \/ CloseDialog
    \/ \E confirmed \in BOOLEAN : ClickDelete(confirmed)
    \/ \E outcome \in {"ok", "fail"}, wasLastRow \in BOOLEAN : DeleteDone(outcome, wasLastRow)

SpecPaging == InitList /\ [][NextPaging]_vars

(***************************************************************************)
(* Properties of the wizard (Spec)                                         *)
(***************************************************************************)
\* C1: the wizard's step is always one of the five steps 0..4; it starts at 0 and
\* changes only by +1, on Continue, or by -1, on Back; handleNext at the last step
\* and handleBack at the first leave it as it is.
C1_StepWalk ==
    /\ step = 0
    /\ [](step \in 0..(Len(STEPS) - 1))
    /\ [][/\ step' # step => \/ (step' = step + 1 /\ ClickContinue)
                             \/ (step' = step - 1 /\ ClickBack)
          /\ (handleNext /\ step = Len(STEPS) - 1) => step' = step
          /\ (handleBack /\ step = 0) => step' = step]_vars

\* The wizard has walked from the first step to the Review step.
C1_Witness == step = Len(STEPS) - 1 /\ route = "/submit"

\* What each step needs before the wizard may move on.
C2_Requirement ==
    CASE step = 0 ->
            form.testimonyCategoryId # Undefined /\ form.categoryType \in CategoryTypes
      [] step = 1 ->
            \/ /\ form.categoryType = "NETWORK"
               /\ form.networkId # Undefined \/ form.customNetwork > 0
            \/ /\ form.categoryType = "EXTERNAL"
               /\ form.externalCategoryId # Undefined \/ form.customExternal > 0
            \/ /\ form.categoryType = "REGION"
               /\ form.zoneId # Undefined
               /\ form.groupId \notin {Undefined, "new"} \/ form.newGroupName > 0
               /\ form.church > 0
      [] step = 2 ->
            form.name > 0 /\ form.email # <<>> /\ form.countryId # Undefined /\ form.phone > 0
      [] step = 3 ->
            \/ form.contentType = "TEXT" /\ form.textContent > 0
            \/ form.contentType \in {"VIDEO", "AUDIO"} /\ file # NoFile
      [] OTHER -> FALSE

\* C2: the step advances from s to s + 1 only in a state that has what step s needs:
\* testimony type and category type at 0; the network, the external category or
\* zone, group and church at 1; name, email, country and phone at 2; text for TEXT
\* or a file for VIDEO and AUDIO at 3.
C2_AdvanceGated == [][step' = step + 1 => C2_Requirement]_vars

\* The wizard has moved past the details of a REGION testimony.
C2_Witness == step = 2 /\ form.categoryType = "REGION" /\ form.church > 0

\* The testimony POSTs of the last step.
Posted == {r \in sent : r.api = "submitTestimony"}

\* C3: a testimony is posted only with values that satisfy formSchema: a name of
\* at least 2 characters, a valid e-mail address, a phone number of at least 6
\* characters, and a testimony type, a country and a phone country code.
C3_PostedSatisfiesSchema ==
    \A r \in Posted :
        /\ r.data.name >= MinNameLen
        /\ IsEmail(r.data.email)
        /\ r.data.phone >= MinPhoneLen
        /\ r.data.testimonyCategoryId # Undefined
        /\ r.data.countryId # Undefined
        /\ r.data.phoneCountryCode # Undefined

\* C4: a NETWORK payload carries a networkId or a non-empty customNetwork, an
\* EXTERNAL payload an externalCategoryId or a non-empty customExternal; with
\* 'Other' chosen the wizard is past step 1 only with the custom name typed.
C4_CategoryCarried ==
    /\ \A r \in Posted :
        /\ r.data.categoryType = "NETWORK" =>
              r.data.networkId # Undefined \/ r.data.customNetwork > 0
        /\ r.data.categoryType = "EXTERNAL" =>
              r.data.externalCategoryId # Undefined \/ r.data.customExternal > 0
    /\ step > 1 =>
        /\ (form.categoryType = "NETWORK" /\ form.networkId = "other") => form.customNetwork > 0
        /\ (form.categoryType = "EXTERNAL" /\ form.externalCategoryId = "other") =>
              form.customExternal > 0

\* C5: every posted testimony has the content of its content type: TEXT carries
\* non-empty textContent and no file, VIDEO and AUDIO a file and no textContent.
C5_ContentMatchesType ==
    \A r \in Posted :
        /\ r.data.contentType = "TEXT" => r.data.textContent > 0 /\ r.file = NoFile
        /\ r.data.contentType \in {"VIDEO", "AUDIO"} =>
              r.file # NoFile /\ r.data.textContent = 0

\* A VIDEO testimony has been posted with its file.
C5_Witness == \E r \in Posted : r.data.contentType = "VIDEO" /\ r.file # NoFile

(***************************************************************************)
(* Properties of the admin session (SpecAuth)                              *)
(***************************************************************************)
\* C6: on every admin path but /admin/login the layout renders the page content
\* only when the session check has finished and admin is non-null; the skeleton
\* while the check is in flight; nothing when it has finished with no admin.
C6_ContentGated ==
    pathname # LoginPath =>
        /\ AdminLayoutContent = "content" => (~isLoading /\ checkReqs = 0 /\ admin # NoAdmin)
        /\ checkReqs > 0 => AdminLayoutContent = "skeleton"
        /\ (checkReqs = 0 /\ admin = NoAdmin) => AdminLayoutContent = "null"

\* The page content is on screen.
C6_Witness == pathname # LoginPath /\ AdminLayoutContent = "content" /\ admin = "a1"

\* C7: once the session check has finished with no admin on a path other than
\* /admin/login, a redirect to /admin/login is issued; none is issued while the
\* check is in flight or an admin is present; isLoading starts true, becomes false
\* when the check completes and never becomes true again.
C7_Redirect ==
    /\ isLoading = TRUE
    /\ []((~isLoading /\ admin = NoAdmin /\ pathname # LoginPath) => pendingNav = LoginPath)
    /\ [][/\ (pendingNav' = LoginPath /\ pendingNav # LoginPath) =>
                (~isLoading' /\ admin' = NoAdmin)
          /\ isLoading' # isLoading => (isLoading /\ checkReqs' < checkReqs)
          /\ checkReqs' < checkReqs => ~isLoading']_vars

\* The check has failed on a protected page and the redirect is pending.
C7_Witness ==
    ~isLoading /\ admin = NoAdmin /\ pathname = "/admin/testimonies" /\ pendingNav = LoginPath

(***************************************************************************)
(* Properties of the pages' loads (SpecPages)                              *)
(***************************************************************************)
\* The API calls the pages make.
PageCalls ==
    {"loadInitialData", "getGroups", "createGroup", "submitTestimony", "getStats",
     "filterData", "getStorageSettings", "getAdminProfile", "logout"}

\* C8: every failed API request of a page results in a toast.
C8_FailuresToasted == failure \in PageCalls => toast # NoToast

InitialDataRequests == {[api |-> e] : e \in Endpoints}

C10_Timeout ==
    /\ [](\A i \in Uploads :
            calls[i].responded =>
                /\ calls[i].timer = "cleared"
                /\ calls[i].result \notin {TimedOut, AbortError})
    /\ [][\A i \in Uploads :
            /\ (calls[i].phase = "fetching" /\ calls'[i].timer = "fired") =>
                  (calls'[i].phase = "settled" /\ calls'[i].result = TimedOut)
            /\ calls[i].phase = "settled" =>
                  (calls'[i].phase = "settled" /\ calls'[i].result = calls[i].result)
            /\ (calls[i].phase = "fetching" /\ calls'[i].responded) =>
                  calls'[i].timer = "cleared"]_vars

\* One call has timed out, another has resolved after its response.
C10_Witness ==
    \E i, j \in Uploads :
        /\ calls[i].result = TimedOut /\ ~calls[i].responded
        /\ calls[j].result = "ok" /\ calls[j].responded

(***************************************************************************)
(* Properties of the admin testimonies page (SpecList)                     *)
(***************************************************************************)
\* The status changes the last step requested.
StatusRequests == {r \in sent : r.api = "updateTestimonyStatus"}

\* C11: a status change is requested only to APPROVED or REJECTED and never to the
\* status the opened testimony shows; Reject is not offered for a testimony shown
\* REJECTED, Approve not for one shown APPROVED.
C11_OnlyOtherStatus ==
    /\ \A r \in StatusRequests :
        /\ r.status \in {"APPROVED", "REJECTED"}
        /\ r.status # selectedTestimony.status
    /\ selectedTestimony.status = "REJECTED" => ~ENABLED ClickUpdateStatus("REJECTED")
    /\ selectedTestimony.status = "APPROVED" => ~ENABLED ClickUpdateStatus("APPROVED")

\* Approve has been pressed for a testimony shown PENDING.
C11_Witness ==
    \E r \in StatusRequests : r.status = "APPROVED" /\ selectedTestimony.status = "PENDING"

\* C12: a status update is sent only for a testimony whose displayed status is
\* PENDING, so APPROVED to REJECTED and REJECTED to APPROVED are never requested.
C12_OnlyOutOfPending == \A r \in StatusRequests : selectedTestimony.status = "PENDING"

\* C19: after a status update or a delete succeeds the dialog is closed and the
\* list is reloaded with the current filters and page; after a failure the dialog
\* stays as it is, no reload is issued and an error toast is shown; isUpdating and
\* isDeleting return to false either way; a declined confirmation sends nothing.
C19_AfterModeration ==
    [][/\ (UpdateStatusDone("ok") \/ DeleteDone("ok", FALSE)) =>
            /\ ~isViewOpen'
            /\ sent' = {[api |-> "getTestimonies", query |-> Query(page', statusFilter')]}
       /\ (UpdateStatusDone("fail") \/ DeleteDone("fail", FALSE)) =>
            /\ isViewOpen' = isViewOpen
            /\ sent' = {}
            /\ toast' = "Error"
       /\ (UpdateStatusDone("ok") \/ UpdateStatusDone("fail")) => ~isUpdating'
       /\ (DeleteDone("ok", FALSE) \/ DeleteDone("fail", FALSE)) => ~isDeleting'
       /\ ClickDelete(FALSE) => (sent' = {} /\ ~isDeleting')]_vars

(***************************************************************************)
(* Properties of fetchApi (SpecApi)                                        *)
(***************************************************************************)
\* The message the rejection for a non-2xx response is to carry.
ExpectedMessage(body) ==
    IF body.json /\ body.error.type # "undefined" /\ body.error.text # ""
    THEN body.error.text
    ELSE RequestFailed

\* C13: fetchApi resolves, with the parsed body, only for a 2xx response; for a
\* non-2xx response it rejects with an Error whose message is the body's error
\* member when the body is JSON with a non-empty one, and 'Request failed' when
\* the body is unparsable or the member is missing or empty.
C13_ErrorUnwrapping ==
    \A i \in ApiCallIds :
        (apiCalls[i].phase = "settled" /\ apiCalls[i].status # 0) =>
            /\ apiCalls[i].result.outcome = "resolved" =>
                  /\ ResponseOk(apiCalls[i].status)
                  /\ apiCalls[i].result.value = apiCalls[i].body
            /\ ~ResponseOk(apiCalls[i].status) =>
                  /\ apiCalls[i].result.outcome = "rejected"
                  /\ apiCalls[i].result.name = "Error"
                  /\ apiCalls[i].result.message = ExpectedMessage(apiCalls[i].body)

(***************************************************************************)
(* C14: once no getGroups request is outstanding and the last load did not *)
(* fail, the groups list holds the groups of the currently selected zone:  *)
(* a late response for a previously selected zone never overwrites it.     *)
(***************************************************************************)
C14_GroupsOfSelectedZone ==
    (/\ route = "/submit"
     /\ form.zoneId # Undefined
     /\ GroupLoadsInFlight = 0
     /\ groupsError = NoError)
        => groups = GroupsOf(form.zoneId)

(***************************************************************************)
(* C15: when createGroup rejects during a Submit run, no testimony is      *)
(* posted, the toast is 'Failed to create group', the step, the form       *)
(* values and the file are what they were, and isSubmitting and            *)
(* isCreatingGroup are false again.                                        *)
(***************************************************************************)
C15_CreateGroupFailure ==
    [][failure' = "createGroup" =>
          /\ toast' = "Failed to create group"
          /\ sent' = {}
          /\ postReqs' = postReqs
          /\ route' = route
          /\ step' = step /\ form' = form /\ file' = file
          /\ isSubmitting' = FALSE
          /\ isCreatingGroup' = FALSE]_vars

\* a failed createGroup has just been handled on the Review step
C15_Witness ==
    /\ failure = "createGroup"
    /\ step = Len(STEPS) - 1
    /\ form.groupId = "new"
    /\ postReqs = 0
    /\ ~isSubmitting

(***************************************************************************)
(* C16: the wizard navigates to /submit/success only in the step in which  *)
(* submitTestimony resolves; when it rejects the toast is                  *)
(* 'Submission failed', the route, the step, the form values and the file  *)
(* are what they were, and no run is in progress any more, so that Submit  *)
(* is enabled again.                                                       *)
(***************************************************************************)
C16_SubmitOutcome ==
    [][/\ (route' = "/submit/success" /\ route # "/submit/success") =>
              /\ postReqs > 0
              /\ postReqs' = postReqs - 1
              /\ failure' = NoFailure
       /\ failure' = "submitTestimony" =>
              /\ toast' = "Submission failed"
              /\ sent' = {}
              /\ route' = route
              /\ step' = step /\ form' = form /\ file' = file
              /\ isSubmitting' = FALSE
              /\ isCreatingGroup' = FALSE
              /\ pendingRun' = {} /\ postReqs' = 0]_vars

\* a failed submitTestimony has just been handled and Submit can be clicked again
C16_Witness ==
    /\ failure = "submitTestimony"
    /\ route = "/submit"
    /\ step = Len(STEPS) - 1
    /\ ENABLED ClickSubmit

(***************************************************************************)
(* C17: the form is shown only when all five reference lists have been     *)
(* fetched by one initial load; a load in which any of the five requests   *)
(* fails updates none of the lists, shows the error view with the message  *)
(* in place of the form, toasts, and leaves isInitialLoading false.        *)
(***************************************************************************)
ListsLoaded ==
    /\ networks = NetworkIds
    /\ externalCategories = ExternalCategoryIds
    /\ testimonyCategories = TestimonyCategoryIds
    /\ zones = ZoneIds
    /\ countries = CountryIds

ErrorViewShown == route = "/submit" /\ isInitialLoading = FALSE /\ initialLoadError # NoError

C17_InitialLoad ==
    /\ [](FormShown => ListsLoaded)
    /\ [][failure' = "loadInitialData" =>
              /\ UNCHANGED <<networks, externalCategories, testimonyCategories, zones,
                             countries>>
              /\ toast' = "Error"
              /\ isInitialLoading' = FALSE
              /\ initialLoadError' = RequestFailed
              /\ ErrorViewShown'
              /\ ~FormShown']_vars

\* an initial load has just failed: the error view is up and no list is set
C17_Witness ==
    /\ failure = "loadInitialData"
    /\ ErrorViewShown
    /\ networks = {} /\ zones = {} /\ countries = {}

(***************************************************************************)
(* C18: a step in which the wizard's step changes (Back or Continue)       *)
(* changes nothing else: the form values, the file and the reference       *)
(* lists are what they were; and Back can be clicked at every step above   *)
(* 0 whatever the field values are.                                        *)
(***************************************************************************)
C18_StepOnly ==
    /\ []((FormShown /\ step > 0) => ENABLED ClickBack)
    /\ [][step' # step =>
              /\ form' = form
              /\ file' = file
              /\ UNCHANGED <<networks, externalCategories, testimonyCategories, zones,
                             countries, groups>>
              /\ UNCHANGED <<route, isInitialLoading, isLoadingGroups, isSubmitting,
                             isCreatingGroup, initialLoadError, groupsError>>
              /\ sent' = {} /\ toast' = NoToast]_vars

\* back on step 1 after the personal details were typed, with step 1 made incomplete
C18_Witness ==
    /\ FormShown
    /\ step = 1
    /\ form.name > 0
    /\ ~canProceed
    /\ ENABLED ClickBack

(***************************************************************************)
(* C20: Save sends the update only when, converted to bytes, the total     *)
(* storage limit is at least 100 MB and the video and the audio limits at  *)
(* least 1 MB each; otherwise it sends nothing, leaves the displayed       *)
(* settings and isSaving (false) alone and shows the validation toast of   *)
(* the first failing field in the order total, video, audio.               *)
(***************************************************************************)
TotalOk == parseSize(totalStorageGB, "GB") >= 100 * MB
VideoOk == parseSize(maxVideoMB, "MB") >= MB
AudioOk == parseSize(maxAudioMB, "MB") >= MB

FirstFailing ==
    IF ~TotalOk THEN "Validation Error: Total storage limit must be at least 100 MB"
    ELSE IF ~VideoOk THEN "Validation Error: Max video file size must be at least 1 MB"
    ELSE "Validation Error: Max audio file size must be at least 1 MB"

UpdateSent == \E r \in sent : r.api = "updateStorageSettings"

C20_SaveValidation ==
    /\ [][UpdateSent' => (TotalOk /\ VideoOk /\ AudioOk)]_vars
    /\ [][(ClickSave /\ ~(TotalOk /\ VideoOk /\ AudioOk)) =>
              /\ sent' = {}
              /\ settings' = settings /\ settingsData' = settingsData
              /\ isSaving = FALSE /\ isSaving' = FALSE
              /\ toast' = FirstFailing]_vars
    /\ [][(ClickSave /\ TotalOk /\ VideoOk /\ AudioOk) =>
              /\ UpdateSent'
              /\ isSaving' = TRUE]_vars

\* Save has just been refused for the audio limit alone: 0.5 MB rounds to 524288 bytes
C20_Witness ==
    /\ toast = "Validation Error: Max audio file size must be at least 1 MB"
    /\ TotalOk /\ VideoOk /\ ~AudioOk
    /\ maxVideoMB = Decimal(9999996, 10000000)
    /\ isSaving = FALSE

(***************************************************************************)
(* C21: choosing a file larger than the limit of the current content type  *)
(* (100 MB for VIDEO, 20 MB otherwise) shows the 'File too large' toast    *)
(* and leaves the held file as it was; choosing a file within the limit    *)
(* makes it the held file.                                                 *)
(***************************************************************************)
SizeLimit(contentType) == IF contentType = "VIDEO" THEN 100 * MB ELSE 20 * MB

C21_FileChoice ==
    [][\A size \in {MaxOtherSize, MaxOtherSize + 1, MaxVideoSize, MaxVideoSize + 1} :
           ChooseFile(size) =>
               IF size > SizeLimit(form.contentType)
               THEN toast' = "File too large" /\ file' = file
               ELSE toast' = NoToast /\ file' = <<size>>]_vars

\* a file is held and a larger one has just been refused
C21_Witness ==
    /\ toast = "File too large"
    /\ file # NoFile
    /\ form.contentType = "AUDIO"

(***************************************************************************)
(* C25: whenever a file is held its size is within the limit of the        *)
(* selected content type (100 MB for VIDEO, 20 MB for AUDIO), and no       *)
(* AUDIO submission carries a file over 20 MB.                             *)
(***************************************************************************)
C25_HeldFileWithinLimit ==
    /\ (route = "/submit" /\ file # NoFile) => file[1] <= SizeLimit(form.contentType)
    /\ \A r \in sent :
           (r.api = "submitTestimony" /\ r.file # NoFile /\ r.data.contentType = "AUDIO")
               => r.file[1] <= 20 * MB

(***************************************************************************)
(* C22: a Submit with categoryType REGION, group 'new' and a new group     *)
(* name issues createGroup and no testimony; the testimony is posted in    *)
(* the step in which createGroup succeeds, with the created group's id as  *)
(* groupId, and not at all when it fails; no submission ever carries the   *)
(* groupId 'new'.                                                          *)
(***************************************************************************)
TestimonyPosts(requests) == {r \in requests : r.api = "submitTestimony"}

C22_GroupCreatedFirst ==
    /\ [][\A r \in TestimonyPosts(sent') : r.data.groupId # "new"]_vars
    /\ [][(ClickSubmit /\ NeedsNewGroup(form)) =>
              /\ sent' = {[api |-> "createGroup", name |-> form.newGroupName,
                           zoneId |-> form.zoneId]}
              /\ postReqs' = postReqs]_vars
    /\ [][\A run \in pendingRun :
              /\ CreateGroupDone(run, "ok") =>
                     /\ TestimonyPosts(sent') # {}
                     /\ \A r \in TestimonyPosts(sent') :
                            /\ r.data.groupId = CreatedGroupId
                            /\ r.data.zoneId = run.data.zoneId
              /\ CreateGroupDone(run, "fail") => TestimonyPosts(sent') = {}]_vars

\* the testimony has just been posted with the id of the group created for it
C22_Witness ==
    \E r \in TestimonyPosts(sent) :
        /\ r.data.categoryType = "REGION"
        /\ r.data.groupId = CreatedGroupId
        /\ form.groupId = "new"

(***************************************************************************)
(* C23: at most one Submit run is in progress at a time: a run in progress *)
(* (createGroup or the testimony POST awaiting its answer) keeps           *)
(* isSubmitting true, which disables the Submit button, so at most one     *)
(* request of a run is outstanding; and when no run is in progress both    *)
(* isSubmitting and isCreatingGroup are false.                             *)
(***************************************************************************)
RunsInProgress == Cardinality(pendingRun) + postReqs

C23_OneRunAtATime ==
    /\ RunsInProgress <= 1
    /\ RunsInProgress = 1 => isSubmitting
    /\ isCreatingGroup <=> pendingRun # {}
    /\ (isSubmitting \/ isCreatingGroup) => ~ENABLED ClickSubmit
    /\ RunsInProgress = 0 => (~isSubmitting /\ ~isCreatingGroup)

\* a run is awaiting the POST on the Review step and Submit cannot be clicked
C23_Witness ==
    /\ FormShown /\ step = Len(STEPS) - 1
    /\ postReqs = 1
    /\ isSubmitting
    /\ ~ENABLED ClickSubmit

(***************************************************************************)
(* C24: across any sequence of Submit presses for the same new group name  *)
(* and zone, at most one createGroup request succeeds: pressing Submit     *)
(* again after a failed testimony POST does not create the group again.    *)
(***************************************************************************)
C24_GroupCreatedOnce == \A k \in NewGroupKeys : createdGroups[k] <= 1

(***************************************************************************)
(* C26: a posted payload carries only the category fields of its           *)
(* categoryType: networkId/customNetwork only for NETWORK,                 *)
(* externalCategoryId/customExternal only for EXTERNAL,                    *)
(* zoneId/groupId/church only for REGION, whatever the form still holds    *)
(* for the other types; and never an id together with its custom           *)
(* counterpart.                                                            *)
(***************************************************************************)
C26_OnlyOwnCategoryFields ==
    \A r \in Posted :
        /\ r.data.categoryType # "NETWORK" =>
               r.data.networkId = Undefined /\ r.data.customNetwork = 0
        /\ r.data.categoryType # "EXTERNAL" =>
               r.data.externalCategoryId = Undefined /\ r.data.customExternal = 0
        /\ r.data.categoryType # "REGION" =>
               r.data.zoneId = Undefined /\ r.data.groupId = Undefined /\ r.data.church = 0
        /\ ~(r.data.networkId # Undefined /\ r.data.customNetwork > 0)
        /\ ~(r.data.externalCategoryId # Undefined /\ r.data.customExternal > 0)
        /\ r.data.networkId # "other" /\ r.data.externalCategoryId # "other"

\* an EXTERNAL testimony has been posted while the form still holds a network and a zone
C26_Witness ==
    \E r \in Posted :
        /\ r.data.categoryType = "EXTERNAL"
        /\ form.networkId # Undefined
        /\ form.zoneId # Undefined
        /\ form.church > 0

(***************************************************************************)
(* C27: once a login has succeeded admin stays non-null until a logout     *)
(* succeeds: the session check started at mount, completing with a         *)
(* failure after the login, neither resets admin to null nor causes a      *)
(* redirect to /admin/login.                                               *)
(***************************************************************************)
C27_LoginKept ==
    [][admin # NoAdmin =>
          /\ admin' = NoAdmin => logoutReqs' < logoutReqs
          /\ checkReqs' < checkReqs =>
                 (admin' # NoAdmin /\ (pendingNav' = LoginPath => pendingNav = LoginPath))]_vars

(***************************************************************************)
(* C28: the requested page is always between 1 and the totalPages of the   *)
(* result on display, whenever that result has at least one page, across   *)
(* Previous and Next, filter changes, deletions and reloads; and every     *)
(* filter change sets the page to 1.                                       *)
(***************************************************************************)
C28_PageWithinResult ==
    /\ [](totalPages >= 1 => page \in 1..totalPages)
    /\ [][statusFilter' # statusFilter => page' = 1]_vars

(***************************************************************************)
(* C29: choosing the 'All ...' item of a filter removes the filter: no     *)
(* list request carries a value for that parameter (an empty status is     *)
(* left out of the request by getTestimonies).                             *)
(***************************************************************************)
ListRequests == {r \in sent : r.api = "getTestimonies"}

C29_AllRemovesFilter ==
    \A r \in ListRequests : statusFilter = "all" => r.query.status = ""

(***************************************************************************)
(* C30: isLoading is not false while a list request is in flight, and the  *)
(* answer that is on display once no request is outstanding is the answer  *)
(* to the current filters and page: a late answer to an older request      *)
(* never replaces a newer one.                                             *)
(***************************************************************************)
C30_LatestAnswerShown ==
    /\ [](ListLoadsInFlight > 0 => listIsLoading = TRUE)
    /\ [][(listData' # listData /\ ListLoadsInFlight' = 0) =>
              listData' = Query(page', statusFilter')]_vars

====
